---- MODULE Spec2Model ----
(***************************************************************************)
(* A model of the case_class package: Signature / AppliedSignature        *)
(* (signature.py), the class utilities (clsutils.py) and the interning     *)
(* metaclass CaseClassMeta with the CaseClass base (case_class.py).        *)
(*                                                                         *)
(* Python values are modelled by integers, parameter and keyword names by  *)
(* strings, tuples by sequences, dicts by functions over their key set     *)
(* (dict equality ignores order) and, where the iteration order of a dict  *)
(* matters (the keyword arguments of a call), by a sequence of key/value   *)
(* records in insertion order.                                             *)
(***************************************************************************)
EXTENDS Integers, Sequences, FiniteSets, TLC

\* ------------------------------------------------------------------------
\* Bounds of the model
\* ------------------------------------------------------------------------

\* most positional arguments of one call
MaxArgs == 3

\* most keyword arguments of one call
MaxKwargs == 2

\* the values a call may pass (0 is also the declared default of every
\* defaulted parameter, so that passing a default explicitly happens)
ValueSet == {0, 1}

\* the keyword names a call may use: the parameter names of the signatures
\* below and one name that no signature declares
KwNames == {"a", "b", "c", "d", "k", "e"}

\* Python's None
None == "None"

\* ------------------------------------------------------------------------
\* signature.py: Signature
\* ------------------------------------------------------------------------

ARGUMENT == 0
ARGUMENT_WITH_DEFAULT == 1
VARARG == 2
KEYWORD_VARARG == 3
KEYWORD_ONLY == 4

\* a dict with no entries
EmptyDict == [x \in {} |-> 0]

\* Signature.__init__: the fields that inspect.getfullargspec yields
\* (the receiver already dropped)
Signature(pa, van, kwvan, pdef, kwonly, kwdef) ==
    [args |-> pa, vararg |-> van, varkw |-> kwvan, defaults |-> pdef,
     kwonlyargs |-> kwonly, kwonlydefaults |-> kwdef]

\* the signatures of the callables of the model:
\*   ()   (a)   (a, b=0)   (a, b=0, *c, **d)   (a, *c)   (a, **d)
\*   (a, *c, k=0, **d)   (a, *, k)
SigEmpty == Signature(<<>>, None, None, <<>>, <<>>, EmptyDict)
SigA == Signature(<<"a">>, None, None, <<>>, <<>>, EmptyDict)
SigAB == Signature(<<"a", "b">>, None, None, <<0>>, <<>>, EmptyDict)
SigABCD == Signature(<<"a", "b">>, "c", "d", <<0>>, <<>>, EmptyDict)
SigAC == Signature(<<"a">>, "c", None, <<>>, <<>>, EmptyDict)
SigAD == Signature(<<"a">>, None, "d", <<>>, <<>>, EmptyDict)
SigACKD == Signature(<<"a">>, "c", "d", <<>>, <<"k">>, [x \in {"k"} |-> 0])
SigAKreq == Signature(<<"a">>, None, None, <<>>, <<"k">>, EmptyDict)

Signatures ==
    {SigEmpty, SigA, SigAB, SigABCD, SigAC, SigAD, SigACKD, SigAKreq}

\* (a, b=0, c=1): a signature with two defaults that differ
SigABC == Signature(<<"a", "b", "c">>, None, None, <<0, 1>>, <<>>, EmptyDict)

\* Signature.__iter__: the triples (name, type, default) in the order of the
\* signature.  The generator reads kwonlydefaults[name] when it reaches a
\* keyword-only argument; keyerror marks a triple at which that lookup raises
\* KeyError (a keyword-only argument declared without a default).
RECURSIVE SeqMap(_, _, _)
SeqMap(Op(_, _), s, i) ==
    IF i > Len(s) THEN <<>> ELSE <<Op(s, i)>> \o SeqMap(Op, s, i + 1)

\* a slip: the defaults are not counted, every argument is a plain one
ArgCutoffNoDefaults(sig) == Len(sig.args)

\* "index before which we have no defaults"
ArgCutoff(sig) == Len(sig.args) - Len(sig.defaults)

SigIter(sig) ==
    LET arg_cutoff == ArgCutoff(sig)
        Arg(s, i) ==
            IF i <= arg_cutoff
            THEN [n |-> s[i], t |-> ARGUMENT, d |-> 0, keyerror |-> FALSE]
            ELSE [n |-> s[i], t |-> ARGUMENT_WITH_DEFAULT,
                  d |-> sig.defaults[i - arg_cutoff], keyerror |-> FALSE]
        KwOnly(s, i) ==
            IF s[i] \in DOMAIN sig.kwonlydefaults
            THEN [n |-> s[i], t |-> KEYWORD_ONLY,
                  d |-> sig.kwonlydefaults[s[i]], keyerror |-> FALSE]
            ELSE [n |-> s[i], t |-> KEYWORD_ONLY, d |-> 0, keyerror |-> TRUE]
    IN  SeqMap(Arg, sig.args, 1)
        \o (IF sig.vararg # None
            THEN <<[n |-> sig.vararg, t |-> VARARG, d |-> 0,
                    keyerror |-> FALSE]>>
            ELSE <<>>)
        \o SeqMap(KwOnly, sig.kwonlyargs, 1)
        \o (IF sig.varkw # None
            THEN <<[n |-> sig.varkw, t |-> KEYWORD_VARARG, d |-> 0,
                    keyerror |-> FALSE]>>
            ELSE <<>>)

\* ------------------------------------------------------------------------
\* Keyword arguments of a call: a dict in insertion order
\* ------------------------------------------------------------------------

\* n in kwargs
KwHas(kwargs, n) == \E i \in 1..Len(kwargs) : kwargs[i].k = n

\* kwargs[n]
KwGet(kwargs, n) ==
    LET i == CHOOSE j \in 1..Len(kwargs) : kwargs[j].k = n IN kwargs[i].v

\* kwargs after kwargs.pop(n)
KwPop(kwargs, n) ==
    LET Keep(e) == e.k # n IN SelectSeq(kwargs, Keep)

\* a slip: kwargs is emptied before it is stored
KwDictEmptied(kwargs) == [x \in {} |-> 0]

\* the dict itself, as compared by ==
KwDict(kwargs) ==
    [n \in {kwargs[i].k : i \in 1..Len(kwargs)} |-> KwGet(kwargs, n)]

\* a slip: the check for an argument passed twice is left out
FirstPassedNever(kwargs, passed_args) == "None"

\* "for k in kwargs: if k in passed_args": the first such k, or None
FirstPassed(kwargs, passed_args) ==
    LET hits == {i \in 1..Len(kwargs) :
                    \E j \in 1..Len(passed_args) : passed_args[j] = kwargs[i].k}
    IN  IF hits = {} THEN None
        ELSE kwargs[CHOOSE i \in hits : \A j \in hits : i <= j].k

\* ------------------------------------------------------------------------
\* signature.py: AppliedSignature.__init__
\* ------------------------------------------------------------------------

\* the outcome of a call: exc is None and val the result, or exc names the
\* exception raised and arg its argument
Return(v) == [exc |-> None, arg |-> None, val |-> v]
Raise(e, a) == [exc |-> e, arg |-> a, val |-> EmptyDict]

\* the loop over the signature from its i-th triple on, and the checks that
\* follow the loop; values is self.__values
RECURSIVE AppliedInitFrom(_, _, _, _, _, _, _)
AppliedInitFrom(params, i, args, kwargs, values, had_keyword, passed_args) ==
    IF i > Len(params)
    THEN IF Len(args) > 0 THEN Raise("TooManyArguments", None)
         ELSE IF Len(kwargs) > 0
         THEN IF FirstPassed(kwargs, passed_args) # None
              THEN Raise("DoubleArgumentValue",
                         FirstPassed(kwargs, passed_args))
              ELSE Raise("TooManyKeyWordArguments", None)
         ELSE Return(values)
    ELSE
    LET n == params[i].n
        t == params[i].t
        d == params[i].d
        passed == Append(passed_args, n)
    IN  IF params[i].keyerror THEN Raise("KeyError", n)
        ELSE IF t = ARGUMENT \/ t = ARGUMENT_WITH_DEFAULT
        THEN IF ~had_keyword
             THEN IF Len(args) > 0
                  THEN AppliedInitFrom(params, i + 1, Tail(args), kwargs,
                           values @@ (n :> Head(args)), had_keyword, passed)
                  ELSE IF KwHas(kwargs, n)
                  THEN AppliedInitFrom(params, i + 1, args, KwPop(kwargs, n),
                           values @@ (n :> KwGet(kwargs, n)), TRUE, passed)
                  ELSE IF t = ARGUMENT_WITH_DEFAULT
                  THEN AppliedInitFrom(params, i + 1, args, kwargs,
                           values @@ (n :> d), TRUE, passed)
                  ELSE Raise("MissingArgument", n)
             ELSE IF KwHas(kwargs, n)
                  THEN AppliedInitFrom(params, i + 1, args, KwPop(kwargs, n),
                           values @@ (n :> KwGet(kwargs, n)), had_keyword,
                           passed)
                  ELSE IF t = ARGUMENT_WITH_DEFAULT
                  THEN AppliedInitFrom(params, i + 1, args, kwargs,
                           values @@ (n :> d), had_keyword, passed)
                  ELSE Raise("MissingArgument", n)
        ELSE IF t = VARARG
        THEN AppliedInitFrom(params, i + 1, <<>>, kwargs,
                 values @@ (n :> args), had_keyword, passed)
        ELSE IF t = KEYWORD_ONLY
        THEN IF KwHas(kwargs, n)
             THEN AppliedInitFrom(params, i + 1, args, KwPop(kwargs, n),
                      values @@ (n :> KwGet(kwargs, n)), had_keyword, passed)
             ELSE AppliedInitFrom(params, i + 1, args, kwargs,
                      values @@ (n :> d), had_keyword, passed)
        ELSE \* t = KEYWORD_VARARG
             IF FirstPassed(kwargs, passed_args) # None
             THEN Raise("DoubleArgumentValue",
                        FirstPassed(kwargs, passed_args))
             ELSE AppliedInitFrom(params, i + 1, args, <<>>,
                      values @@ (n :> KwDict(kwargs)), had_keyword, passed)

\* AppliedSignature(signature, args, kwargs): the new object, with its two
\* fields __sig and __values, or the exception its __init__ raises
AppliedSignature(signature, args, kwargs) ==
    LET r == AppliedInitFrom(SigIter(signature), 1, args, kwargs, EmptyDict,
                             FALSE, <<>>)
    IN  IF r.exc # None THEN r
        ELSE Return([sig |-> signature, values |-> r.val])

\* Signature.__call__
SignatureCall(sig, args, kwargs) == AppliedSignature(sig, args, kwargs)

\* AppliedSignature.arguments
arguments(applied) == applied.values

\* AppliedSignature.__eq__ (both operands AppliedSignatures); Signature.__eq__
\* compares the six fields of the two signatures
SignatureEq(s1, s2) ==
    /\ s1.args = s2.args
    /\ s1.vararg = s2.vararg
    /\ s1.varkw = s2.varkw
    /\ s1.defaults = s2.defaults
    /\ s1.kwonlyargs = s2.kwonlyargs
    /\ s1.kwonlydefaults = s2.kwonlydefaults

AppliedEq(a1, a2) ==
    /\ SignatureEq(a1.sig, a2.sig)
    /\ arguments(a1) = arguments(a2)

\* ------------------------------------------------------------------------
\* signature.py: Signature.get_argument_type, Signature.get_default
\* ------------------------------------------------------------------------

\* self.args.index(name): the first position of name, counted from 1
ArgIndex(sig, name) ==
    CHOOSE i \in 1..Len(sig.args) :
        sig.args[i] = name /\ \A j \in 1..(i - 1) : sig.args[j] # name

\* Signature.get_argument_type
get_argument_type(sig, name) ==
    IF \E i \in 1..Len(sig.args) : sig.args[i] = name
    THEN IF Len(sig.args) - (ArgIndex(sig, name) - 1) > Len(sig.defaults)
         THEN Return(ARGUMENT)
         ELSE Return(ARGUMENT_WITH_DEFAULT)
    ELSE IF name = sig.vararg THEN Return(VARARG)
    ELSE IF name = sig.varkw THEN Return(KEYWORD_VARARG)
    ELSE IF \E i \in 1..Len(sig.kwonlyargs) : sig.kwonlyargs[i] = name
    THEN Return(KEYWORD_ONLY)
    ELSE Raise("NoSuchArgument", name)

\* Signature.get_default; "self.defaults[len(self.args) - idx - 1]" with idx
\* counted from 0 is the entry Len(args) - idx of a sequence counted from 1
get_default(sig, name) ==
    LET tp == get_argument_type(sig, name)
    IN  IF tp.exc # None THEN tp
        ELSE IF tp.val = ARGUMENT_WITH_DEFAULT
        THEN LET idx == ArgIndex(sig, name) - 1
             IN  Return(sig.defaults[Len(sig.args) - idx])
        ELSE IF tp.val = KEYWORD_ONLY
        THEN IF name \in DOMAIN sig.kwonlydefaults
             THEN Return(sig.kwonlydefaults[name])
             ELSE Raise("KeyError", name)
        ELSE Raise("NoDefaultValue", name)

\* ------------------------------------------------------------------------
\* signature.py: AppliedSignature.__call__ -- re-binding
\* ------------------------------------------------------------------------

\* target_kwargs[n] = v: the value of a key that is present is replaced in
\* place, a new key is added at the end
KwSet(kwargs, n, v) ==
    IF KwHas(kwargs, n)
    THEN [i \in 1..Len(kwargs) |->
             IF kwargs[i].k = n THEN [k |-> n, v |-> v] ELSE kwargs[i]]
    ELSE Append(kwargs, [k |-> n, v |-> v])

\* "for k in new: target_kwargs[k] = new[k]"
RECURSIVE KwUpdate(_, _)
KwUpdate(kwargs, new) ==
    IF new = <<>> THEN kwargs
    ELSE KwUpdate(KwSet(kwargs, Head(new).k, Head(new).v), Tail(new))

\* the items of a stored dict, one after the other
RECURSIVE DictItems(_)
DictItems(d) ==
    IF DOMAIN d = {} THEN <<>>
    ELSE LET n == CHOOSE x \in DOMAIN d : TRUE
         IN  <<[k |-> n, v |-> d[n]]>>
             \o DictItems([x \in DOMAIN d \ {n} |-> d[x]])

\* a slip: a parameter that gets no new value falls back to its declared
\* default
FallbackDefault(v, t, d) == IF t = ARGUMENT_WITH_DEFAULT THEN d ELSE v

\* "else it is missing -- we use what we already have"
Fallback(v, t, d) == v

\* a slip: the old variable arguments are not carried over
OldVarargsDropped(v) == <<>>

\* "if we have no varargs, use the old ones"
OldVarargs(v) == v

\* a slip: the old keywords are not carried over
CollectedNewOnly(v, kwargs) == kwargs

\* a slip: the old keywords are carried over only if no new one is passed
CollectedWholesale(v, kwargs) ==
    IF kwargs = <<>> THEN DictItems(v) ELSE kwargs

\* "copy over existing kwargs" "and add all the new ones passed"
Collected(v, kwargs) == KwUpdate(DictItems(v), kwargs)

\* the loop over the applied signature from its i-th triple on, the checks
\* that follow it and the new AppliedSignature; self is the AppliedSignature
\* called
RECURSIVE RebindFrom(_, _, _, _, _, _, _, _, _)
RebindFrom(self, params, i, args, kwargs, target_args, target_kwargs, had_keyword, passed_args) ==
    IF i > Len(params)
    THEN IF Len(args) > 0 THEN Raise("TooManyArguments", None)
         ELSE IF Len(kwargs) > 0
         THEN IF FirstPassed(kwargs, passed_args) # None
              THEN Raise("DoubleArgumentValue",
                         FirstPassed(kwargs, passed_args))
              ELSE Raise("TooManyKeyWordArguments", None)
         ELSE AppliedSignature(self.sig, target_args, target_kwargs)
    ELSE
    LET n == params[i].n
        t == params[i].t
        v == self.values[n]
        passed == Append(passed_args, n)
    IN  IF t = ARGUMENT \/ t = ARGUMENT_WITH_DEFAULT
        THEN IF ~had_keyword /\ Len(args) > 0
             THEN RebindFrom(self, params, i + 1, Tail(args), kwargs,
                      Append(target_args, Head(args)), target_kwargs,
                      had_keyword, passed)
             ELSE IF KwHas(kwargs, n)
             THEN RebindFrom(self, params, i + 1, args, KwPop(kwargs, n),
                      Append(target_args, KwGet(kwargs, n)), target_kwargs,
                      TRUE, passed)
             ELSE RebindFrom(self, params, i + 1, args, kwargs,
                      Append(target_args, Fallback(v, t, params[i].d)),
                      target_kwargs, TRUE, passed)
        ELSE IF t = VARARG
        THEN IF Len(args) = 0
             THEN RebindFrom(self, params, i + 1, args, kwargs,
                      target_args \o OldVarargs(v), target_kwargs,
                      had_keyword, passed)
             ELSE RebindFrom(self, params, i + 1, <<>>, kwargs,
                      target_args \o args, target_kwargs, had_keyword,
                      passed)
        ELSE IF t = KEYWORD_ONLY
        THEN IF KwHas(kwargs, n)
             THEN RebindFrom(self, params, i + 1, args, KwPop(kwargs, n),
                      target_args, KwSet(target_kwargs, n, KwGet(kwargs, n)),
                      had_keyword, passed)
             ELSE RebindFrom(self, params, i + 1, args, kwargs,
                      target_args, KwSet(target_kwargs, n, v), had_keyword,
                      passed)
        ELSE \* t = KEYWORD_VARARG
             IF FirstPassed(kwargs, passed_args) # None
             THEN Raise("DoubleArgumentValue",
                        FirstPassed(kwargs, passed_args))
             ELSE RebindFrom(self, params, i + 1, args, <<>>, target_args,
                      KwUpdate(target_kwargs, Collected(v, kwargs)),
                      had_keyword, passed)

\* applied(*args, **kwargs)
Rebind(self, args, kwargs) ==
    RebindFrom(self, SigIter(self.sig), 1, args, kwargs, <<>>, <<>>, FALSE,
               <<>>)

\* ------------------------------------------------------------------------
\* signature.py: AppliedSignature.call, AppliedSignature.__str__
\* ------------------------------------------------------------------------

\* the argument list that AppliedSignature.call builds: the named arguments
\* by position, the variable arguments unpacked after them, the keyword-only
\* arguments by name and the extra keywords unpacked
RECURSIVE CallArgsFrom(_, _, _)
CallArgsFrom(applied, params, i) ==
    IF i > Len(params) THEN [args |-> <<>>, kwargs |-> <<>>]
    ELSE LET n == params[i].n
             t == params[i].t
             v == applied.values[n]
             rest == CallArgsFrom(applied, params, i + 1)
         IN  IF t = ARGUMENT \/ t = ARGUMENT_WITH_DEFAULT
             THEN [rest EXCEPT !.args = <<v>> \o @]
             ELSE IF t = VARARG
             THEN [rest EXCEPT !.args = v \o @]
             ELSE IF t = KEYWORD_ONLY
             THEN [rest EXCEPT !.kwargs = <<[k |-> n, v |-> v]>> \o @]
             ELSE [rest EXCEPT !.kwargs = @ \o DictItems(v)]

\* a slip: only the named arguments are passed on
CallArgsNamed(applied) ==
    [args |-> [i \in 1..Len(applied.sig.args) |->
                  applied.values[applied.sig.args[i]]],
     kwargs |-> <<>>]

CallArgsOf(applied) == CallArgsFrom(applied, SigIter(applied.sig), 1)

\* sep.join(parts)
RECURSIVE Join(_, _)
Join(parts, sep) ==
    IF parts = <<>> THEN ""
    ELSE IF Len(parts) = 1 THEN parts[1]
    ELSE parts[1] \o sep \o Join(Tail(parts), sep)

\* repr of a value of the model, an int
repr_int(v) == ToString(v)

\* repr of a tuple of ints: "()", "(1,)", "(1, 0)"
repr_tuple(t) ==
    IF Len(t) = 1 THEN "(" \o repr_int(t[1]) \o ",)"
    ELSE "(" \o Join([i \in 1..Len(t) |-> repr_int(t[i])], ", ") \o ")"

\* repr of a dict from names to ints: "{}", "{'e': 1}"; the items of a dict
\* with several entries are taken in the order of DictItems
repr_dict(d) ==
    LET items == DictItems(d)
    IN  "{" \o Join([i \in 1..Len(items) |->
                        "'" \o items[i].k \o "': " \o repr_int(items[i].v)],
                    ", ") \o "}"

\* a slip: every argument is rendered as a plain one
StrPartPlain(n, t, v) ==
    IF t = VARARG THEN repr_tuple(v)
    ELSE IF t = KEYWORD_VARARG THEN repr_dict(v)
    ELSE repr_int(v)

\* what AppliedSignature.__str__ appends for the triple (n, t, v)
StrPart(n, t, v) ==
    IF t = ARGUMENT THEN repr_int(v)
    ELSE IF t = ARGUMENT_WITH_DEFAULT \/ t = KEYWORD_ONLY
    THEN n \o "=" \o repr_int(v)
    ELSE IF t = VARARG THEN "*" \o n \o "=" \o repr_tuple(v)
    ELSE "**" \o n \o "=" \o repr_dict(v)

\* str(applied)
AppliedStr(applied) ==
    LET params == SigIter(applied.sig)
    IN  Join([i \in 1..Len(params) |->
                 StrPart(params[i].n, params[i].t,
                         applied.values[params[i].n])], ", ")

\* AppliedSignature.__getitem__: self.__values[item]; a KeyError for an item
\* that is no name of the signature
AppliedGetItem(applied, item) ==
    IF item \in DOMAIN applied.values THEN Return(applied.values[item])
    ELSE Raise("KeyError", item)

\* ------------------------------------------------------------------------
\* The calls of the model
\* ------------------------------------------------------------------------

SeqsUpTo(S, n) == UNION {[1..m -> S] : m \in 0..n}

KwPairs == [k : KwNames, v : ValueSet]

\* keyword arguments: at most MaxKwargs entries with distinct keys
KwargsSet ==
    {kw \in SeqsUpTo(KwPairs, MaxKwargs) :
        \A i, j \in 1..Len(kw) : kw[i].k = kw[j].k => i = j}

ArgsSet == SeqsUpTo(ValueSet, MaxArgs)

\* ------------------------------------------------------------------------
\* case_class.py: the classes
\* ------------------------------------------------------------------------

\* classes are named by strings; the classes that exist when the module is
\* loaded
object == "object"
_CaseClass == "_CaseClass"
CaseClass == "CaseClass"
AbstractCaseClass == "AbstractCaseClass"
InheritableCaseClass == "InheritableCaseClass"

Range(s) == {s[i] : i \in 1..Len(s)}

\* what a class statement gives for __init__: own_init says whether the class
\* body defines it; sig is its signature without the receiver; calls_super
\* says whether it calls super().__init__; raises says whether it raises
\* when the parameter a is bound to 1
NoInit ==
    [own_init |-> FALSE, sig |-> SigEmpty, calls_super |-> FALSE,
     raises |-> FALSE]

InitOf(sig, calls_super, raises) ==
    [own_init |-> TRUE, sig |-> sig, calls_super |-> calls_super,
     raises |-> raises]

\* a class object: __bases__, __mro__ and the __init__ of its __dict__
Class(bases, mro, init) == [bases |-> bases, mro |-> mro, init |-> init]

\* the class table after "import case_class": object, the plain base
\* _CaseClass and the three marker classes (object.__dict__ holds __init__)
BuiltinClasses ==
    (object :> Class(<<>>, <<object>>, InitOf(SigEmpty, FALSE, FALSE)))
    @@ (_CaseClass :> Class(<<object>>, <<_CaseClass, object>>, NoInit))
    @@ (CaseClass :>
           Class(<<_CaseClass>>, <<CaseClass, _CaseClass, object>>, NoInit))
    @@ (AbstractCaseClass :>
           Class(<<CaseClass, _CaseClass>>,
                 <<AbstractCaseClass, CaseClass, _CaseClass, object>>, NoInit))
    @@ (InheritableCaseClass :>
           Class(<<CaseClass, _CaseClass>>,
                 <<InheritableCaseClass, CaseClass, _CaseClass, object>>,
                 NoInit))

\* the classes whose metaclass is CaseClassMeta
IsCaseClass(tbl, cls) == cls \in DOMAIN tbl /\ CaseClass \in Range(tbl[cls].mro)

\* type.__new__ computes __mro__ by C3 linearization: the merge of the
\* linearizations of the bases and the list of bases.  Inconsistent marks a
\* merge that has no next head ("Cannot create a consistent method
\* resolution order", "duplicate base class").
Inconsistent == "<inconsistent>"

RECURSIVE Merge(_)
Merge(seqs) ==
    LET NonEmpty(q) == q # <<>>
        rest == SelectSeq(seqs, NonEmpty)
        good == {i \in 1..Len(rest) :
                    \A j \in 1..Len(rest) :
                        Head(rest[i]) \notin Range(Tail(rest[j]))}
    IN  IF rest = <<>> THEN <<>>
        ELSE IF good = {} THEN <<Inconsistent>>
        ELSE LET h == Head(rest[CHOOSE i \in good : \A j \in good : i <= j])
                 Drop(q) == IF Head(q) = h THEN Tail(q) ELSE q
             IN  <<h>> \o Merge([j \in 1..Len(rest) |-> Drop(rest[j])])

MroOf(tbl, name, bases) ==
    <<name>> \o
    Merge([i \in 1..Len(bases) |-> tbl[bases[i]].mro] \o <<bases>>)

\* ------------------------------------------------------------------------
\* clsutils.py
\* ------------------------------------------------------------------------

\* get_method("__init__", cls.__dict__, cls.__bases__): the class in whose
\* __dict__ the method is found, searching the bases depth first, or None
RECURSIVE get_method(_, _), get_method_bases(_, _, _)
get_method(tbl, cls) ==
    IF tbl[cls].init.own_init THEN cls
    ELSE get_method_bases(tbl, tbl[cls].bases, 1)

get_method_bases(tbl, bases, i) ==
    IF i > Len(bases) THEN None
    ELSE LET sub_method == get_method(tbl, bases[i])
         IN  IF sub_method # None THEN sub_method
             ELSE get_method_bases(tbl, bases, i + 1)

\* get_init_signature(cls): object.__init__ is replaced by a function of the
\* receiver alone
get_init_signature(tbl, cls) ==
    LET init_method == get_method(tbl, cls)
    IN  IF init_method = object THEN SigEmpty ELSE tbl[init_method].init.sig

\* a slip: the raw arguments are the key, nothing is normalised
get_class_parameters_raw(tbl, cls, args, kwargs) ==
    LET a == SignatureCall(get_init_signature(tbl, cls), args, kwargs)
    IN  IF a.exc # None THEN a
        ELSE Return([args |-> args, kwargs |-> KwDict(kwargs)])

\* get_class_parameters(cls, *args, **kwargs)
get_class_parameters(tbl, cls, args, kwargs) ==
    LET a == SignatureCall(get_init_signature(tbl, cls), args, kwargs)
    IN  IF a.exc # None THEN a ELSE Return(arguments(a.val))

\* ------------------------------------------------------------------------
\* case_class.py: CaseClassMeta
\* ------------------------------------------------------------------------

\* CaseClassMeta.is_concrete_caseclass
is_concrete_caseclass(tbl, cls) ==
    cls # AbstractCaseClass /\ CaseClass \in Range(tbl[cls].bases)

\* CaseClassMeta.inherits_from_case_class
inherits_from_case_class(tbl, bases) ==
    IF InheritableCaseClass \in Range(bases) THEN FALSE
    ELSE \E i \in 1..Len(bases) : is_concrete_caseclass(tbl, bases[i])

\* a slip: any abstract ancestor makes a class abstract
IsAbstractByAncestry(tbl, cls) == AbstractCaseClass \in Range(tbl[cls].mro)

\* "AbstractCaseClass in cls.__bases__"
IsAbstract(tbl, cls) == AbstractCaseClass \in Range(tbl[cls].bases)

\* "_CaseClass in cls.__bases__"
IsBaseMarker(tbl, cls) == _CaseClass \in Range(tbl[cls].bases)

\* a slip: the scan for an existing key never finds one
KeyIndexNever(ckey, key) == 0

\* ckey.index(key): the first index (from 1) at which key is stored, 0 for
\* the ValueError of a key that is not stored
KeyIndex(ckey, key) ==
    LET hits == {i \in 1..Len(ckey) : ckey[i] = key}
    IN  IF hits = {} THEN 0 ELSE CHOOSE i \in hits : \A j \in hits : i <= j

\* type.__call__ looks __init__ up along __mro__: the first class that
\* defines it
RECURSIVE ResolvedInit(_, _, _)
ResolvedInit(tbl, mro, i) ==
    IF tbl[mro[i]].init.own_init THEN mro[i]
    ELSE ResolvedInit(tbl, mro, i + 1)

\* the user initializers that run, in order, when the initializer found from
\* position i of mro on is called: each one that calls super().__init__
\* reaches the next one along mro; object.__init__ is no user initializer
RECURSIVE InitChainFrom(_, _, _)
InitChainFrom(tbl, mro, i) ==
    IF i > Len(mro) \/ mro[i] = object THEN <<>>
    ELSE IF ~tbl[mro[i]].init.own_init THEN InitChainFrom(tbl, mro, i + 1)
    ELSE <<mro[i]>> \o
         (IF tbl[mro[i]].init.calls_super
          THEN InitChainFrom(tbl, mro, i + 1)
          ELSE <<>>)

\* a slip: the initializer is run by the metaclass and again by type.__call__
InitChainTwice(tbl, cls) ==
    InitChainFrom(tbl, tbl[cls].mro, 1) \o InitChainFrom(tbl, tbl[cls].mro, 1)

InitChain(tbl, cls) == InitChainFrom(tbl, tbl[cls].mro, 1)

\* ------------------------------------------------------------------------
\* The state
\* ------------------------------------------------------------------------
VARIABLES
    bsig,            \* Signature.__call__: the Signature being applied
    bargs,           \*   the positional arguments of the call
    bkwargs,         \*   the keyword arguments of the call
    bres,            \*   the outcome of the call, NotApplied before it
    classes,         \* the classes defined so far, by name
    instance_keys,   \* CaseClassMeta.instance_keys: class -> list of keys
    instance_values, \* CaseClassMeta.instance_values: class -> index -> instance
    heap,            \* the live instances of each class: class -> list of the
                     \*   AppliedSignature each instance holds; an instance is
                     \*   <<class, position>>
    returned,        \* history: every <<class, key, instance>> a construction
                     \*   returned
    last,            \* the last operation and its outcome
    pattern,         \* extraction: the extractor
    subject,         \*   the object it is applied to
    context,         \*   PatternMatcher.__context of the matcher of subject
    _patterns,       \* A._patterns: the ApplicationExtractors registered
    matcher,         \* the PatternMatcher that the program holds
    contexts,        \* PatternMatcher.__context of every matcher
    threads          \* the constructions under way in threads

NotApplied == Raise("NotApplied", None)

bvars == <<bsig, bargs, bkwargs, bres>>
cvars == <<classes, instance_keys, instance_values, heap, returned, last>>
evars == <<pattern, subject, context>>
xvars == <<_patterns, matcher, contexts, threads>>
vars == <<bsig, bargs, bkwargs, bres, classes, instance_keys, instance_values,
          heap, returned, last, pattern, subject, context, _patterns,
          matcher, contexts, threads>>

NoInstance == <<>>

\* the record of an operation
Outcome(op, cls, exc, arg, inst, found, inits, steps, args, kwargs) ==
    [op |-> op, cls |-> cls, exc |-> exc, arg |-> arg, inst |-> inst,
     found |-> found, inits |-> inits, steps |-> steps, args |-> args,
     kwargs |-> kwargs, val |-> None, src |-> None]

NoOp == Outcome("none", None, None, None, NoInstance, FALSE, <<>>, <<>>,
                <<>>, <<>>)

\* no extractor is at work
NoExtraction == pattern = None /\ subject = None /\ context = None

\* the program holds no PatternMatcher: inst is the matcher held, attempted
\* says whether a match was attempted on it since the call that gave it, and
\* ok and vars are the outcome of the latest of these attempts
NoMatcher ==
    [inst |-> NoInstance, attempted |-> FALSE, ok |-> FALSE,
     vars |-> EmptyDict]

\* the module extractor is not imported
NotImported ==
    _patterns = <<>> /\ matcher = NoMatcher /\ contexts = EmptyDict

\* the program has one thread
Sequential == threads = <<>>

ClassInit ==
    /\ classes = BuiltinClasses
    /\ instance_keys = EmptyDict
    /\ instance_values = EmptyDict
    /\ heap = EmptyDict
    /\ returned = {}
    /\ last = NoOp

BindInit ==
    /\ bsig \in Signatures
    /\ bargs \in ArgsSet
    /\ bkwargs \in KwargsSet
    /\ bres = NotApplied
    /\ ClassInit
    /\ NoExtraction
    /\ NotImported
    /\ Sequential

Init ==
    /\ bsig = SigEmpty
    /\ bargs = <<>>
    /\ bkwargs = <<>>
    /\ bres = NotApplied
    /\ ClassInit
    /\ NoExtraction
    /\ NotImported
    /\ Sequential

\* s(*args, **kwargs)
Apply ==
    /\ bres = NotApplied
    /\ bres' = SignatureCall(bsig, bargs, bkwargs)
    /\ UNCHANGED <<bsig, bargs, bkwargs>>
    /\ UNCHANGED cvars
    /\ UNCHANGED evars
    /\ UNCHANGED xvars

\* ------------------------------------------------------------------------
\* case_class.py: CaseClassMeta.__new__ -- a class statement
\* ------------------------------------------------------------------------
DefineClass(name, bases, init) ==
    /\ name \notin DOMAIN classes
    /\ Range(bases) \subseteq DOMAIN classes
    /\ LET mro == MroOf(classes, name, bases)
       IN  IF _CaseClass \notin Range(bases)
              /\ inherits_from_case_class(classes, bases)
           THEN /\ last' = Outcome("define", name,
                               "NoCaseToCaseInheritanceException", name,
                               NoInstance, FALSE, <<>>, <<>>, <<>>, <<>>)
                /\ UNCHANGED classes
           ELSE IF Inconsistent \in Range(mro)
           THEN /\ last' = Outcome("define", name, "TypeError", None,
                               NoInstance, FALSE, <<>>, <<>>, <<>>, <<>>)
                /\ UNCHANGED classes
           ELSE /\ classes' = classes @@ (name :> Class(bases, mro, init))
                /\ last' = Outcome("define", name, None, None, NoInstance,
                               FALSE, <<>>, <<>>, <<>>, <<>>)
    /\ UNCHANGED <<instance_keys, instance_values, heap, returned>>
    /\ UNCHANGED bvars
    /\ UNCHANGED evars
    /\ UNCHANGED xvars

\* ------------------------------------------------------------------------
\* case_class.py: CaseClassMeta.__call__ -- cls(*args, **kwargs)
\* ------------------------------------------------------------------------

\* a slip: the entry of the class is made anew on every call
WithEntryFresh(reg, cls, empty) ==
    [c \in DOMAIN reg \cup {cls} |-> IF c = cls THEN empty ELSE reg[c]]

\* the registry after "make sure we have the dictionary"
WithEntry(reg, cls, empty) ==
    IF cls \in DOMAIN reg THEN reg ELSE reg @@ (cls :> empty)

\* what a call gives: the exception or the instance, what the call did, and
\* the registry, the heap and the history after it
Called(exc, arg, inst, found, inits, steps, args, kwargs, keys, vals, hp, ret) ==
    [exc |-> exc, arg |-> arg, inst |-> inst, found |-> found,
     inits |-> inits, steps |-> steps, args |-> args, kwargs |-> kwargs,
     keys |-> keys, vals |-> vals, heap |-> hp, returned |-> ret]

\* a slip: the key and the instance are stored before the initializer is
\* called
AppendedFirst(key, applied, keys, vals, hp, ret, tbl, cls, args, kwargs) ==
    LET keys0 == WithEntry(keys, cls, <<>>)
        vals0 == WithEntry(vals, cls, EmptyDict)
        idx == KeyIndex(keys0[cls], key.val)
        init_cls == ResolvedInit(tbl, tbl[cls].mro, 1)
        init_ok == SignatureCall(tbl[init_cls].init.sig, args,
                                 kwargs).exc = None
        inits == InitChain(tbl, cls)
        init_raises ==
            \E i \in 1..Len(inits) :
                /\ tbl[inits[i]].init.raises
                /\ "a" \in DOMAIN arguments(applied.val)
                /\ arguments(applied.val)["a"] = 1
        objs == IF cls \in DOMAIN hp THEN hp[cls] ELSE <<>>
        instance == <<cls, Len(objs) + 1>>
        keys1 == [keys0 EXCEPT ![cls] = Append(keys0[cls], key.val)]
        vals1 == [vals0 EXCEPT ![cls] =
                     vals0[cls] @@ ((Len(keys0[cls]) + 1) :> instance)]
        hp1 == [c \in DOMAIN hp \cup {cls} |->
                   IF c = cls THEN Append(objs, applied.val) ELSE hp[c]]
    IN  IF key.exc # None
        THEN Called(key.exc, key.arg, NoInstance, FALSE, <<>>,
                    <<"registry", "bind">>, <<>>, <<>>, keys0, vals0, hp,
                    ret)
        ELSE IF idx # 0
        THEN Called(None, None, vals0[cls][idx], TRUE, <<>>,
                    <<"registry", "bind", "scan">>, args, kwargs, keys0,
                    vals0, hp, ret \cup {<<cls, key.val, vals0[cls][idx]>>})
        ELSE IF ~init_ok
        THEN Called("TypeError", None, NoInstance, FALSE, <<>>,
                    <<"registry", "bind", "scan", "new">>, <<>>, <<>>,
                    keys1, vals1, hp1, ret)
        ELSE IF init_raises
        THEN Called("InitError", None, NoInstance, FALSE, inits,
                    <<"registry", "bind", "scan", "new", "init">>, <<>>,
                    <<>>, keys1, vals1, hp1, ret)
        ELSE Called(None, None, instance, FALSE, inits,
                    <<"registry", "bind", "scan", "new", "init", "append">>,
                    args, kwargs, keys1, vals1, hp1,
                    ret \cup {<<cls, key.val, instance>>})

\* CaseClassMeta.__call__ from "make sure we have the dictionary" on, with
\* the key and the AppliedSignature of CaseClass.__new__ computed
MetaCallWith(key, applied, keys, vals, hp, ret, tbl, cls, args, kwargs) ==
    LET keys0 == WithEntry(keys, cls, <<>>)
        vals0 == WithEntry(vals, cls, EmptyDict)
        ckey == keys0[cls]
        cval == vals0[cls]
        idx == KeyIndex(ckey, key.val)
        \* type.__call__ passes the arguments to the resolved __init__
        init_cls == ResolvedInit(tbl, tbl[cls].mro, 1)
        init_ok == SignatureCall(tbl[init_cls].init.sig, args,
                                 kwargs).exc = None
        inits == InitChain(tbl, cls)
        init_raises ==
            \E i \in 1..Len(inits) :
                /\ tbl[inits[i]].init.raises
                /\ "a" \in DOMAIN arguments(applied.val)
                /\ arguments(applied.val)["a"] = 1
        objs == IF cls \in DOMAIN hp THEN hp[cls] ELSE <<>>
        instance == <<cls, Len(objs) + 1>>
    IN  IF key.exc # None
        THEN Called(key.exc, key.arg, NoInstance, FALSE, <<>>,
                    <<"registry", "bind">>, <<>>, <<>>, keys0, vals0, hp,
                    ret)
        ELSE IF idx # 0
        THEN Called(None, None, cval[idx], TRUE, <<>>,
                    <<"registry", "bind", "scan">>, args, kwargs, keys0,
                    vals0, hp, ret \cup {<<cls, key.val, cval[idx]>>})
        ELSE IF ~init_ok
        THEN Called("TypeError", None, NoInstance, FALSE, <<>>,
                    <<"registry", "bind", "scan", "new">>, <<>>, <<>>,
                    keys0, vals0, hp, ret)
        ELSE IF init_raises
        THEN Called("InitError", None, NoInstance, FALSE, inits,
                    <<"registry", "bind", "scan", "new", "init">>, <<>>,
                    <<>>, keys0, vals0, hp, ret)
        ELSE Called(None, None, instance, FALSE, inits,
                    <<"registry", "bind", "scan", "new", "init", "append">>,
                    args, kwargs,
                    [keys0 EXCEPT ![cls] = Append(ckey, key.val)],
                    [vals0 EXCEPT ![cls] =
                        cval @@ ((Len(ckey) + 1) :> instance)],
                    [c \in DOMAIN hp \cup {cls} |->
                        IF c = cls THEN Append(objs, applied.val)
                        ELSE hp[c]],
                    ret \cup {<<cls, key.val, instance>>})

\* CaseClassMeta.__call__: cls(*args, **kwargs) of a class of tbl in the
\* registry (keys, vals), the heap hp and the history ret
MetaCall(keys, vals, hp, ret, tbl, cls, args, kwargs) ==
    IF IsAbstract(tbl, cls)
    THEN Called("NotInstantiableAbstractCaseClassException", cls,
                NoInstance, FALSE, <<>>, <<>>, <<>>, <<>>, keys, vals, hp,
                ret)
    ELSE IF IsBaseMarker(tbl, cls)
    THEN Called("NotInstantiableClassException", cls, NoInstance, FALSE,
                <<>>, <<>>, <<>>, <<>>, keys, vals, hp, ret)
    ELSE MetaCallWith(get_class_parameters(tbl, cls, args, kwargs),
                      \* CaseClass.__new__: the signature is applied once
                      \* more
                      SignatureCall(get_init_signature(tbl, cls), args,
                                    kwargs),
                      keys, vals, hp, ret, tbl, cls, args, kwargs)

\* cls(*args, **kwargs) in the registry (keys, vals), the heap hp and the
\* history ret; op and src name the operation that makes the call
ConstructIn(op, src, keys, vals, hp, ret, cls, args, kwargs) ==
    /\ IsCaseClass(classes, cls)
    /\ \E r \in {MetaCall(keys, vals, hp, ret, classes, cls, args, kwargs)} :
           /\ last' = [Outcome(op, cls, r.exc, r.arg, r.inst, r.found,
                               r.inits, r.steps, r.args, r.kwargs)
                           EXCEPT !.src = src]
           /\ instance_keys' = r.keys
           /\ instance_values' = r.vals
           /\ heap' = r.heap
           /\ returned' = r.returned
    /\ UNCHANGED classes
    /\ UNCHANGED bvars
    /\ UNCHANGED evars

Construct(cls, args, kwargs) ==
    /\ ConstructIn("construct", None, instance_keys, instance_values, heap,
                   returned, cls, args, kwargs)
    /\ UNCHANGED xvars

\* ------------------------------------------------------------------------
\* case_class.py: CaseClassMeta.get_hash, CaseClass.__hash__
\* ------------------------------------------------------------------------

\* the attributes CaseClass.__new__ sets on an instance (names are mangled)
InstanceAttrs ==
    {"_CaseClass__name", "_CaseClass__sig", "_CaseClass__applied"}

\* the attributes a CaseClass instance has: those of the instance and those
\* the class CaseClass defines
CaseClassAttrs ==
    InstanceAttrs \cup {"__new__", "__hash__", "copy", "case_params",
                        "__repr__"}

\* get_hash(cc) for a CaseClass instance: reading cc.case_args raises
\* AttributeError, CaseClass has no such attribute and no __getattr__;
\* otherwise the tuple (cc.case_args, cc.case_kwargs) is looked up among
\* the keys, which are dicts, so that ckey.index raises ValueError
get_hash(cc) ==
    IF "case_args" \notin CaseClassAttrs \/ "case_kwargs" \notin CaseClassAttrs
    THEN Raise("AttributeError", "case_args")
    ELSE Raise("ValueError", None)

\* x == y for two instances: CaseClass defines no __eq__, so that the
\* comparison is object's, identity
InstanceEq(x, y) == x = y

\* the live instances
Instances == UNION {{<<c, i>> : i \in 1..Len(heap[c])} : c \in DOMAIN heap}

\* hash(instance)
Hash(cc) ==
    /\ cc \in Instances
    /\ LET h == get_hash(cc)
       IN  last' = Outcome("hash", cc[1], h.exc, h.arg, cc, FALSE, <<>>,
                           <<>>, <<>>, <<>>)
    /\ UNCHANGED <<classes, instance_keys, instance_values, heap, returned>>
    /\ UNCHANGED bvars
    /\ UNCHANGED evars
    /\ UNCHANGED xvars

\* ------------------------------------------------------------------------
\* case_class.py: CaseParameters, CaseClass.case_params, copy, __repr__
\* ------------------------------------------------------------------------

dict == "dict"
CaseParameters == "CaseParameters"

\* dict.__init__(self, *args, **kwargs); CaseParameters.__init__(self, sig)
SigOfDict == Signature(<<>>, "args", "kwargs", <<>>, <<>>, EmptyDict)
SigOfParameters == Signature(<<"sig">>, None, None, <<>>, <<>>, EmptyDict)

\* the class table with the classes that the properties and methods of an
\* instance use: class CaseParameters(CaseClass, dict)
ModuleClasses ==
    BuiltinClasses
    @@ (dict :> Class(<<object>>, <<dict, object>>,
                      InitOf(SigOfDict, FALSE, FALSE)))
    @@ (CaseParameters :>
           Class(<<CaseClass, dict>>,
                 <<CaseParameters, CaseClass, _CaseClass, dict, object>>,
                 InitOf(SigOfParameters, FALSE, FALSE)))

\* the AppliedSignature that an instance of the heap hp holds
Held(hp, inst) == hp[inst[1]][inst[2]]

\* instance.case_params, for an instance that holds applied, in the
\* registry (keys, vals), the heap hp and the history ret:
\* CaseParameters(self.__applied) is a construction like any other, the
\* class is concrete, its initializer takes the one argument and stores it.
\* Yields the registry, heap and history after the call, inst the
\* CaseParameters instance and sig its signature property.
case_params(keys, vals, hp, ret, applied) ==
    LET cls == CaseParameters
        keys0 == WithEntry(keys, cls, <<>>)
        vals0 == WithEntry(vals, cls, EmptyDict)
        ckey == keys0[cls]
        cval == vals0[cls]
        key == get_class_parameters(classes, cls, <<applied>>, <<>>).val
        idx == KeyIndex(ckey, key)
        objs == IF cls \in DOMAIN hp THEN hp[cls] ELSE <<>>
        instance == <<cls, Len(objs) + 1>>
        mine == SignatureCall(get_init_signature(classes, cls),
                              <<applied>>, <<>>).val
    IN  IF idx # 0
        THEN [keys |-> keys0, vals |-> vals0, heap |-> hp,
              returned |-> ret \cup {<<cls, key, cval[idx]>>},
              inst |-> cval[idx],
              sig |-> Held(hp, cval[idx]).values["sig"]]
        ELSE [keys |-> [keys0 EXCEPT ![cls] = Append(ckey, key)],
              vals |-> [vals0 EXCEPT
                           ![cls] = cval @@ ((Len(ckey) + 1) :> instance)],
              heap |-> [c \in DOMAIN hp \cup {cls} |->
                           IF c = cls THEN Append(objs, mine) ELSE hp[c]],
              returned |-> ret \cup {<<cls, key, instance>>},
              inst |-> instance,
              sig |-> applied]

\* the item of a subscription: an int or a str
IntItem(i) == [t |-> "int", v |-> i]
StrItem(n) == [t |-> "str", v |-> n]

\* CaseParameters.__getitem__(n): self.__sig[n], the lookup of n among the
\* names of the arguments; an int equals none of them
ItemLookup(applied, item) ==
    IF item.t = "str"
    THEN AppliedGetItem(applied, item.v)
    ELSE Raise("KeyError", item.v)

\* what the state holds after instance.case_params was read
AfterParams(inst) ==
    case_params(instance_keys, instance_values, heap, returned,
                Held(heap, inst))

\* instance.copy(*args, **kwargs)
Copy(inst, args, kwargs) ==
    \E cp \in {AfterParams(inst)} :
    \E updated \in {Rebind(cp.sig, args, kwargs)} :
    LET src == [inst |-> inst, args |-> args, kwargs |-> kwargs]
    IN  IF updated.exc # None
        THEN /\ last' = [Outcome("copy", inst[1], updated.exc, updated.arg,
                                 NoInstance, FALSE, <<>>, <<>>, <<>>, <<>>)
                            EXCEPT !.src = src]
             /\ instance_keys' = cp.keys
             /\ instance_values' = cp.vals
             /\ heap' = cp.heap
             /\ returned' = cp.returned
             /\ UNCHANGED classes
             /\ UNCHANGED bvars
             /\ UNCHANGED evars
             /\ UNCHANGED xvars
        ELSE \E call \in {CallArgsOf(updated.val)} :
                 /\ ConstructIn("copy", src, cp.keys, cp.vals, cp.heap,
                                cp.returned, inst[1], call.args, call.kwargs)
                 /\ UNCHANGED xvars

\* repr(instance)
Repr(inst) ==
    \E cp \in {AfterParams(inst)} :
        /\ last' = [Outcome("repr", inst[1], None, None, inst, FALSE, <<>>,
                            <<>>, <<>>, <<>>)
                       EXCEPT !.val = inst[1] \o "(" \o AppliedStr(cp.sig)
                                          \o ")"]
        /\ instance_keys' = cp.keys
        /\ instance_values' = cp.vals
        /\ heap' = cp.heap
        /\ returned' = cp.returned
        /\ UNCHANGED classes
        /\ UNCHANGED bvars
        /\ UNCHANGED evars
        /\ UNCHANGED xvars

\* instance.case_params[item]
GetItem(inst, item) ==
    \E cp \in {AfterParams(inst)} :
    \E r \in {ItemLookup(cp.sig, item)} :
        /\ last' = [Outcome("getitem", inst[1], r.exc, r.arg, inst, FALSE,
                            <<>>, <<>>, <<>>, <<>>)
                       EXCEPT !.val = r.val, !.src = item]
        /\ instance_keys' = cp.keys
        /\ instance_values' = cp.vals
        /\ heap' = cp.heap
        /\ returned' = cp.returned
        /\ UNCHANGED classes
        /\ UNCHANGED bvars
        /\ UNCHANGED evars
        /\ UNCHANGED xvars

\* ------------------------------------------------------------------------
\* extractor.py: the extractors
\* ------------------------------------------------------------------------

\* the objects an extractor is applied to: an int, or an instance of a
\* record type, given by its class and the AppliedSignature it holds
IntObj(v) == [k |-> "int", v |-> v]
InstObj(cls, applied) == [k |-> "inst", cls |-> cls, applied |-> applied]

\* the extractors _(), V(name), L(lit), T(tp), C(func), And(*patterns) and
\* A(pattern, args, kwargs), which pattern(*args, **kwargs) makes
Wild == [p |-> "_"]
V(name) == [p |-> "V", name |-> name]
L(lit) == [p |-> "L", lit |-> lit]
T(tp) == [p |-> "T", tp |-> tp]
C(func) == [p |-> "C", func |-> func]

\* what is no Extractor: the class _ itself, a type and a callable; a
\* literal is an object
Underscore == [raw |-> "_"]
TypeOf(tp) == [raw |-> "type", tp |-> tp]
Callable(func) == [raw |-> "callable", func |-> func]

\* Extractor.lift(o)
lift(o) ==
    IF "p" \in DOMAIN o THEN o
    ELSE IF "raw" \notin DOMAIN o THEN L(o)
    ELSE IF o.raw = "_" THEN Wild
    ELSE IF o.raw = "type" THEN T(o.tp)
    ELSE C(o.func)

And(patterns) ==
    [p |-> "And",
     patterns |-> [i \in 1..Len(patterns) |-> lift(patterns[i])]]
A(pat, args, kwargs) ==
    [p |-> "A", pattern |-> pat,
     args |-> [i \in 1..Len(args) |-> lift(args[i])],
     kwargs |-> [i \in 1..Len(kwargs) |->
                    [k |-> kwargs[i].k, v |-> lift(kwargs[i].v)]]]

\* Extractor.__and__(self, other): self & other
Amp(self, other) ==
    IF self.p = "And" THEN And(self.patterns \o <<other>>)
    ELSE And(<<self, other>>)

\* Extractor.__rshift__(self, other): self >> other
Rshift(self, other) == And(<<self, V(other)>>)

\* the function "lambda <name>: <name> == 1"
IsOne(name) == [names |-> <<name>>]

\* the functions "def is_one(o): return o == 1" and
\* "def not_one(o): return o != 1", which are no lambdas
is_one == [def |-> "is_one"]
not_one == [def |-> "not_one"]

\* utils.is_lambda(func)
is_lambda(func) == "names" \in DOMAIN func

\* "x == 1" for x an object or a dict of bindings: a dict and an instance
\* equal no int
EqualsOne(x) == "k" \in DOMAIN x /\ x.k = "int" /\ x.v = 1

\* func(x), the function itself applied to one value
CallFunction(func, x) ==
    IF func = not_one THEN ~EqualsOne(x) ELSE EqualsOne(x)

\* the exceptions derived from AppliedSignatureException
AppliedSignatureExceptions ==
    {"TooManyArguments", "TooManyKeyWordArguments", "DoubleArgumentValue"}

DoesNotMatch == Raise("ExtractorDoesNotMatch", None)

\* isinstance(o, tp), with the classes of tbl
IsInstance(tbl, o, tp) ==
    IF o.k = "int" THEN tp \in {"int", object}
    ELSE tp \in Range(tbl[o.cls].mro)

\* F._matches of L and T
FMatches(tbl, self, o) ==
    IF self.p = "L" THEN o = self.lit ELSE IsInstance(tbl, o, self.tp)

\* the wrapper that C.__init__ builds around a lambda: False if a name of
\* the lambda is not bound, else the lambda applied to the bound values
LambdaWrapper(func, ctx) ==
    /\ \A i \in 1..Len(func.names) : func.names[i] \in DOMAIN ctx
    /\ ctx[func.names[1]] = IntObj(1)

\* a slip: the function is applied to the object that is matched
FuncOfObject(func, o, ctx) == CallFunction(func, o)

\* self.__func(ctx) of C._extract: self.__func is the wrapper of a lambda,
\* and the function itself otherwise; the object o is not passed
FuncOfC(func, o, ctx) ==
    IF is_lambda(func) THEN LambdaWrapper(func, ctx)
    ELSE CallFunction(func, ctx)

\* a slip: a variable that is bound already is bound anew, whatever it held
ClashesNever(ctx, name, o) == FALSE

\* "self.__name in ctx and ctx[self.__name] != o"
Clashes(ctx, name, o) == name \in DOMAIN ctx /\ ctx[name] # o

\* ctx after ctx[name] = o
CtxSet(ctx, name, o) ==
    [n \in DOMAIN ctx \cup {name} |-> IF n = name THEN o ELSE ctx[n]]

\* ------------------------------------------------------------------------
\* extractor.py: ApplicationExtractor, CaseClassExtractor, PatternMatcher
\* ------------------------------------------------------------------------
ApplicationExtractor == "ApplicationExtractor"
CaseClassExtractor == "CaseClassExtractor"
PatternMatcher == "PatternMatcher"

\* an adapter that the host program defines:
\*   class AnyExtractor(ApplicationExtractor):
\*       def applicable(self, o): return True
\*       def extract(self, o): return Signature(['a'], ...)(2)
AnyExtractor == "AnyExtractor"

\* "def __init__(self, priority=0)" and "def __init__(self, o)"
SigPriority == Signature(<<"priority">>, None, None, <<0>>, <<>>, EmptyDict)
SigO == Signature(<<"o">>, None, None, <<>>, <<>>, EmptyDict)

AdapterMro ==
    <<ApplicationExtractor, AbstractCaseClass, CaseClass, _CaseClass, object>>

\* the case classes that the class statements of extractor.py define
ExtractorClasses ==
    (ApplicationExtractor :>
        Class(<<AbstractCaseClass>>, AdapterMro,
              InitOf(SigPriority, FALSE, FALSE)))
    @@ (CaseClassExtractor :>
           Class(<<ApplicationExtractor>>,
                 <<CaseClassExtractor>> \o AdapterMro, NoInit))
    @@ (PatternMatcher :>
           Class(<<CaseClass>>,
                 <<PatternMatcher, CaseClass, _CaseClass, object>>,
                 InitOf(SigO, FALSE, FALSE)))

\* the class statement of the adapter of the host program
HostClasses ==
    AnyExtractor :>
        Class(<<ApplicationExtractor>>, <<AnyExtractor>> \o AdapterMro,
              NoInit)

\* ae.priority: what __init__ stored
priority(ae) == Held(heap, ae).values["priority"]

\* ae.applicable(o)
applicable(tbl, ae, o) ==
    IF ae[1] = CaseClassExtractor THEN IsInstance(tbl, o, CaseClass)
    ELSE TRUE

\* ae.extract(o): CaseClassExtractor gives o.case_params.signature
AdapterExtract(ae, o) ==
    IF ae[1] = CaseClassExtractor THEN o.applied
    ELSE SignatureCall(SigA, <<2>>, <<>>).val

\* "filter(lambda ae: ae.applicable(o), A._patterns)"
Filter(tbl, patterns, o) ==
    SelectSeq(patterns, LAMBDA ae : applicable(tbl, ae, o))

\* a slip: an adapter goes before those of its priority
InsertBefore(extractors, ae) ==
    LET k == Cardinality({i \in 1..Len(extractors) :
                             priority(extractors[i]) < priority(ae)})
    IN  SubSeq(extractors, 1, k) \o <<ae>>
        \o SubSeq(extractors, k + 1, Len(extractors))

\* one step of the stable sort: ae goes behind the adapters of a priority
\* that is not higher
Insert(extractors, ae) ==
    LET k == Cardinality({i \in 1..Len(extractors) :
                             priority(extractors[i]) <= priority(ae)})
    IN  SubSeq(extractors, 1, k) \o <<ae>>
        \o SubSeq(extractors, k + 1, Len(extractors))

\* "sorted(extractors, key=lambda ae: ae.priority)"
RECURSIVE sorted(_)
sorted(extractors) ==
    IF extractors = <<>> THEN <<>>
    ELSE Insert(sorted(SubSeq(extractors, 1, Len(extractors) - 1)),
                extractors[Len(extractors)])

\* the state after "import case_class.extractor" in a program whose classes
\* are those of tbl: CaseClassExtractor.register() was called
ImportedInstance == <<CaseClassExtractor, 1>>

ImportedApplied == SignatureCall(SigPriority, <<>>, <<>>).val

Imported(tbl) ==
    /\ classes = tbl @@ ExtractorClasses
    /\ instance_keys = (CaseClassExtractor :> <<arguments(ImportedApplied)>>)
    /\ instance_values = (CaseClassExtractor :> (1 :> ImportedInstance))
    /\ heap = (CaseClassExtractor :> <<ImportedApplied>>)
    /\ returned = {<<CaseClassExtractor, arguments(ImportedApplied),
                     ImportedInstance>>}
    /\ _patterns = <<ImportedInstance>>
    /\ matcher = NoMatcher
    /\ contexts = EmptyDict

\* "pattern" of a triple of should_signature is an Extractor: a parameter
\* for which the application passes a sub-pattern holds it; a Defaulted or
\* keyword-only parameter that is left out holds the declared default of the
\* record type, the VarPositional parameter holds a tuple and the VarKeyword
\* parameter a dict
HoldsExtractor(self, param, i) ==
    IF param.t = ARGUMENT THEN TRUE
    ELSE IF param.t = ARGUMENT_WITH_DEFAULT
    THEN i <= Len(self.args) \/ KwHas(self.kwargs, param.n)
    ELSE IF param.t = KEYWORD_ONLY THEN KwHas(self.kwargs, param.n)
    ELSE FALSE

\* Extractor._extract(o, ctx) of each extractor; AllOf is the loop of And
\* and EachParam the loop of A over should_signature
RECURSIVE _extract(_, _, _, _)
RECURSIVE AllOf(_, _, _, _, _)
RECURSIVE EachParam(_, _, _, _, _, _, _)
_extract(tbl, self, o, ctx) ==
    IF self.p = "_" THEN Return(ctx)
    ELSE IF self.p = "V"
    THEN IF Clashes(ctx, self.name, o)
         THEN DoesNotMatch
         ELSE Return(CtxSet(ctx, self.name, o))
    ELSE IF self.p = "L" \/ self.p = "T"
    THEN IF ~FMatches(tbl, self, o) THEN DoesNotMatch ELSE Return(ctx)
    ELSE IF self.p = "C"
    THEN IF ~FuncOfC(self.func, o, ctx) THEN DoesNotMatch
         ELSE Return(ctx)
    ELSE IF self.p = "And" THEN AllOf(tbl, self.patterns, 1, o, ctx)
    ELSE \* A
    LET extracted_ctx == _extract(tbl, self.pattern, o, ctx)
    IN  IF extracted_ctx.exc # None THEN extracted_ctx
        ELSE
        LET extractors == sorted(Filter(tbl, _patterns, o))
        IN  IF Len(extractors) = 0 THEN DoesNotMatch
        ELSE
        LET application_extractor == extractors[Len(extractors)]
            actual_signature == AdapterExtract(application_extractor, o)
            should_signature ==
                SignatureCall(actual_signature.sig, self.args, self.kwargs)
        IN  IF should_signature.exc \in AppliedSignatureExceptions
            THEN DoesNotMatch
            ELSE IF should_signature.exc # None THEN should_signature
            ELSE EachParam(tbl, self, should_signature.val,
                           actual_signature, SigIter(actual_signature.sig),
                           1, extracted_ctx.val)

AllOf(tbl, patterns, i, o, ctx) ==
    IF i > Len(patterns) THEN Return(ctx)
    ELSE LET r == _extract(tbl, patterns[i], o, ctx)
         IN  IF r.exc # None THEN r
             ELSE AllOf(tbl, patterns, i + 1, o, r.val)

EachParam(tbl, self, should, actual, params, i, ctx) ==
    IF i > Len(params) THEN Return(ctx)
    ELSE IF ~HoldsExtractor(self, params[i], i)
    THEN Raise("AttributeError", "_extract")
    ELSE LET value == IntObj(actual.values[params[i].n])
             r == _extract(tbl, should.values[params[i].n], value, ctx)
         IN  IF r.exc # None THEN r
             ELSE EachParam(tbl, self, should, actual, params, i + 1, r.val)

\* Extractor.extract(o): the context, wrapped
extract(tbl, self, o) == _extract(tbl, self, o, EmptyDict)

\* a slip: ExtractorDoesNotMatch is not caught
Uncaught(r) == IF r.exc = None THEN Return(TRUE) ELSE r

\* "try: ...; return True; except exceptions.ExtractorDoesNotMatch: return
\* False"
Caught(r) ==
    IF r.exc = None THEN Return(TRUE)
    ELSE IF r.exc = "ExtractorDoesNotMatch" THEN Return(FALSE)
    ELSE r

\* Extractor.matches(o), which F overrides for L and T
matches(tbl, self, o) ==
    IF self.p = "L" \/ self.p = "T" THEN Return(FMatches(tbl, self, o))
    ELSE Caught(extract(tbl, self, o))

\* the outcome of an extraction is put into last
Extracted(op, r) ==
    [Outcome(op, None, r.exc, r.arg, NoInstance, FALSE, <<>>, <<>>, <<>>,
             <<>>) EXCEPT !.val = r.val]

\* pattern.extract(subject)
Extract ==
    /\ last' = Extracted("extract", extract(classes, pattern, subject))
    /\ UNCHANGED <<pattern, subject, context>>
    /\ UNCHANGED <<classes, instance_keys, instance_values, heap, returned>>
    /\ UNCHANGED bvars
    /\ UNCHANGED xvars

\* pattern.matches(subject)
Matches ==
    /\ last' = Extracted("matches", matches(classes, pattern, subject))
    /\ UNCHANGED <<pattern, subject, context>>
    /\ UNCHANGED <<classes, instance_keys, instance_values, heap, returned>>
    /\ UNCHANGED bvars
    /\ UNCHANGED xvars

\* PatternMatcher(subject) | pattern
MatcherOr ==
    LET ex == extract(classes, pattern, subject)
        r == Caught(ex)
    IN  /\ last' = Extracted("or", r)
        /\ context' = IF ex.exc = None THEN ex.val
                      ELSE IF ex.exc = "ExtractorDoesNotMatch" THEN None
                      ELSE context
        /\ UNCHANGED <<pattern, subject>>
        /\ UNCHANGED <<classes, instance_keys, instance_values, heap,
                       returned>>
        /\ UNCHANGED bvars
        /\ UNCHANGED xvars

\* ------------------------------------------------------------------------
\* Specifications
\* ------------------------------------------------------------------------

\* most live instances
MaxInstances == 2

\* most arguments of a construction call, and most keyword arguments among
\* them
MaxCallArgs == 2
MaxCallKwargs == 1

\* most classes a program defines when the class statements are arbitrary
MaxUserClasses == 3

CallKwNames == {"a", "b"}

CallArgs == SeqsUpTo(ValueSet, MaxCallArgs)

CallKwargs ==
    {kw \in SeqsUpTo([k : CallKwNames, v : ValueSet], MaxCallKwargs) :
        \A i, j \in 1..Len(kw) : kw[i].k = kw[j].k => i = j}

\* the calls made: at most MaxCallArgs arguments in all
Calls ==
    {c \in [args : CallArgs, kwargs : CallKwargs] :
        Len(c.args) + Len(c.kwargs) <= MaxCallArgs}

NumInstances(h) ==
    LET RECURSIVE Sum(_)
        Sum(S) == IF S = {} THEN 0
                  ELSE LET c == CHOOSE x \in S : TRUE
                       IN  Len(h[c]) + Sum(S \ {c})
    IN  Sum(DOMAIN h)

\* the class statements of a program with an abstract record type, two
\* concrete subclasses of it (one inheriting the initializer, one chaining to
\* it through super() and raising for a = 1) and a plain record type with a
\* defaulted parameter:
\*   class Tree(AbstractCaseClass):  def __init__(self, a, *c)
\*   class Node(Tree)
\*   class Leaf(Tree):   def __init__(self, a): super().__init__(a); ...
\*   class Foo(CaseClass):  def __init__(self, a, b=0)
Declarations ==
    {[name |-> "Tree", bases |-> <<AbstractCaseClass>>,
      init |-> InitOf(SigAC, FALSE, FALSE)],
     [name |-> "Node", bases |-> <<"Tree">>, init |-> NoInit],
     [name |-> "Leaf", bases |-> <<"Tree">>,
      init |-> InitOf(SigA, TRUE, TRUE)],
     [name |-> "Foo", bases |-> <<CaseClass>>,
      init |-> InitOf(SigAB, FALSE, FALSE)]}

\* the classes whose call is rejected whatever the arguments are; they are
\* called without arguments
Rejecting(cls) ==
    \/ ~IsCaseClass(classes, cls)
    \/ IsAbstract(classes, cls)
    \/ IsBaseMarker(classes, cls)

Next ==
    \/ \E d \in Declarations : DefineClass(d.name, d.bases, d.init)
    \/ \E cls \in DOMAIN classes, c \in Calls :
          /\ Rejecting(cls) => c.args = <<>> /\ c.kwargs = <<>>
          /\ Construct(cls, c.args, c.kwargs)
          /\ NumInstances(heap') <= MaxInstances
    \/ \E cc \in Instances : Hash(cc)

Spec == Init /\ [][Next]_vars

\* arbitrary class statements: the names are taken in order, the bases are
\* one or two of the record classes defined so far, the class body defines
\* no initializer; the classes are called without arguments
ClassNames == <<"U1", "U2", "U3", "U4", "U5">>

UserClasses == DOMAIN classes \ DOMAIN BuiltinClasses

RecordClasses == {c \in DOMAIN classes : IsCaseClass(classes, c)}

BaseLists ==
    {<<x>> : x \in RecordClasses}
    \cup {<<x, y>> : x \in RecordClasses, y \in RecordClasses}

TypeInits == {NoInit}

TypeCalls == {<<>>}

TypesNext ==
    \/ \E bases \in BaseLists, init \in TypeInits :
          /\ Cardinality(UserClasses) < MaxUserClasses
          /\ DefineClass(ClassNames[Cardinality(UserClasses) + 1], bases,
                         init)
    \/ \E cls \in DOMAIN classes, args \in TypeCalls :
          /\ Construct(cls, args, <<>>)
          /\ NumInstances(heap') <= MaxInstances

SpecTypes == Init /\ [][TypesNext]_vars

BindNext == Apply

SpecBind == BindInit /\ [][BindNext]_vars

\* ------------------------------------------------------------------------
\* The operations on one signature and on what it was applied to
\* ------------------------------------------------------------------------

\* most arguments of the call that is re-bound, and most of them keywords
MaxBound == 3
MaxBoundKwargs == 1

\* most arguments that a re-binding passes
MaxOverride == 2

SigSet == Signatures \cup {SigABC}

SigCalls ==
    {c \in [args : SeqsUpTo(ValueSet, MaxBound),
            kwargs : SeqsUpTo(KwPairs, MaxBoundKwargs)] :
        Len(c.args) + Len(c.kwargs) <= MaxBound}

Overrides ==
    {c \in [args : SeqsUpTo(ValueSet, MaxOverride),
            kwargs : SeqsUpTo(KwPairs, MaxOverride)] :
        /\ Len(c.args) + Len(c.kwargs) <= MaxOverride
        /\ \A i, j \in 1..Len(c.kwargs) :
              c.kwargs[i].k = c.kwargs[j].k => i = j}

SigInit ==
    /\ bsig \in SigSet
    /\ \E c \in SigCalls : bargs = c.args /\ bkwargs = c.kwargs
    /\ bres = NotApplied
    /\ ClassInit
    /\ NoExtraction
    /\ NotImported
    /\ Sequential

\* self(*args, **kwargs) for an AppliedSignature self
Recall(self, args, kwargs) ==
    LET r == Rebind(self, args, kwargs)
    IN  /\ last' = [Outcome("rebind", None, r.exc, r.arg, NoInstance, FALSE,
                            <<>>, <<>>, args, kwargs)
                       EXCEPT !.val = r.val, !.src = self]
        /\ UNCHANGED bvars
        /\ UNCHANGED evars
        /\ UNCHANGED xvars
        /\ UNCHANGED <<classes, instance_keys, instance_values, heap,
                       returned>>

\* s.get_default(name)
GetDefault(name) ==
    LET r == get_default(bsig, name)
    IN  /\ last' = [Outcome("get_default", None, r.exc, r.arg, NoInstance,
                            FALSE, <<>>, <<>>, <<>>, <<>>)
                       EXCEPT !.val = r.val, !.src = name]
        /\ UNCHANGED bvars
        /\ UNCHANGED evars
        /\ UNCHANGED xvars
        /\ UNCHANGED <<classes, instance_keys, instance_values, heap,
                       returned>>

\* one run: a signature is applied, what it yields is re-bound once, and
\* what that yields is re-bound without arguments; or the signature is asked
\* for the default of a name
SigNext ==
    \/ Apply
    \/ \E c \in Overrides :
          /\ last.op = "none"
          /\ bres.exc = None
          /\ Recall(bres.val, c.args, c.kwargs)
    \/ last.op = "rebind" /\ last.exc = None /\ Recall(last.val, <<>>, <<>>)
    \/ \E name \in KwNames : last.op = "none" /\ GetDefault(name)

SpecSig == SigInit /\ [][SigNext]_vars

\* ------------------------------------------------------------------------
\* The methods of the instances of two record types
\* ------------------------------------------------------------------------

\* most instances of the record types
MaxRecords == 2

\* the record types of the repository's tests:
\*   class Test(CaseClass):  def __init__(self, a, b=0, *c, **d)
\*   class Singleton(CaseClass):  pass
RecordTypes == {"Test", "Singleton"}

RecordTable ==
    ModuleClasses
    @@ ("Test" :> Class(<<CaseClass>>,
                        <<"Test", CaseClass, _CaseClass, object>>,
                        InitOf(SigABCD, FALSE, FALSE)))
    @@ ("Singleton" :> Class(<<CaseClass>>,
                             <<"Singleton", CaseClass, _CaseClass, object>>,
                             NoInit))

\* the extra keyword of a construction, and the keywords of an override:
\* the two named arguments and the extra one
RecordKwNames == {"e"}
OverrideKwNames == {"a", "b", "e"}

KwOver(names, c) == \A i \in 1..Len(c.kwargs) : c.kwargs[i].k \in names

\* the constructions: at most MaxBound arguments
RecordCalls == {c \in SigCalls : KwOver(RecordKwNames, c)}

\* the overrides of a copy: at most one argument
RecordOverrides ==
    {c \in Overrides :
        KwOver(OverrideKwNames, c) /\ Len(c.args) + Len(c.kwargs) <= 1}

\* the items of a subscription
Items == {IntItem(i) : i \in 0..1} \cup {StrItem(n) : n \in {"a", "c"}}

Records(hp) ==
    UNION {{<<c, i>> : i \in 1..Len(hp[c])} : c \in DOMAIN hp \cap RecordTypes}

RecordsInit ==
    /\ bsig = SigEmpty
    /\ bargs = <<>>
    /\ bkwargs = <<>>
    /\ bres = NotApplied
    /\ classes = RecordTable
    /\ instance_keys = EmptyDict
    /\ instance_values = EmptyDict
    /\ heap = EmptyDict
    /\ returned = {}
    /\ last = NoOp
    /\ NoExtraction
    /\ NotImported
    /\ Sequential

\* the program is still constructing its records
Constructing == last.op \in {"none", "construct"}

\* one run: the records are constructed (Singleton, which takes no
\* arguments, without any), then a record is copied or subscripted, and
\* records are rendered
RecordsNext ==
    \/ \E cls \in RecordTypes, c \in RecordCalls :
          /\ Constructing
          /\ cls = "Singleton" => c.args = <<>> /\ c.kwargs = <<>>
          /\ Construct(cls, c.args, c.kwargs)
          /\ Cardinality(Records(heap')) <= MaxRecords
    \/ \E inst \in Records(heap), c \in RecordOverrides :
          /\ Constructing
          /\ Copy(inst, c.args, c.kwargs)
          /\ Cardinality(Records(heap')) <= MaxRecords
    \/ \E inst \in Records(heap) : Repr(inst)
    \/ \E inst \in Records(heap), item \in Items :
          Constructing /\ GetItem(inst, item)

SpecRecords == RecordsInit /\ [][RecordsNext]_vars

\* ------------------------------------------------------------------------
\* One extractor and one object
\* ------------------------------------------------------------------------

\* most sub-patterns of an application, and most of them by keyword
MaxSub == 2
MaxSubKwargs == 1

\* the record types that are matched:
\*   class Opt(CaseClass):  def __init__(self, a, b=0)
\*   class Var(CaseClass):  def __init__(self, a, *c)
\*   class Kw(CaseClass):   def __init__(self, a, **d)
MatchedTypes == {"Opt", "Var", "Kw"}

MatchedSig(cls) ==
    IF cls = "Opt" THEN SigAB ELSE IF cls = "Var" THEN SigAC ELSE SigAD

MatchedTable ==
    ModuleClasses
    @@ [cls \in MatchedTypes |->
           Class(<<CaseClass>>, <<cls, CaseClass, _CaseClass, object>>,
                 InitOf(MatchedSig(cls), FALSE, FALSE))]

\* the objects: the ints, and the instances that calls with at most
\* MaxSub arguments make
ObjectCalls ==
    {c \in [args : SeqsUpTo(ValueSet, MaxSub),
            kwargs : SeqsUpTo([k : {"e"}, v : ValueSet], MaxSubKwargs)] :
        Len(c.args) + Len(c.kwargs) <= MaxSub}

Objects ==
    {IntObj(v) : v \in ValueSet}
    \cup UNION {
        {InstObj(cls, SignatureCall(MatchedSig(cls), c.args, c.kwargs).val) :
            c \in {x \in ObjectCalls :
                      SignatureCall(MatchedSig(cls), x.args, x.kwargs).exc
                          = None}} :
        cls \in MatchedTypes}

\* the sub-patterns of an application
SubPatterns == {Wild, V("x"), L(IntObj(1)), T("int"), C(IsOne("x"))}

SubCalls ==
    {c \in [args : SeqsUpTo(SubPatterns, MaxSub),
            kwargs : SeqsUpTo([k : {"a", "b", "e"}, v : SubPatterns],
                              MaxSubKwargs)] :
        Len(c.args) + Len(c.kwargs) <= MaxSub}

\* the predicates that are no lambdas
Predicates == {C(is_one), C(not_one)}

\* the extractors: the plain ones, the conjunctions of two of them, the
\* predicates alone and after a variable, and the applications T(cls)(...)
\* and _()(...)
Patterns ==
    SubPatterns
    \cup {And(<<p, q>>) : p, q \in SubPatterns}
    \cup Predicates
    \cup {And(<<V("x"), q>>) : q \in Predicates}
    \cup {A(h, c.args, c.kwargs) :
             h \in {T(cls) : cls \in MatchedTypes} \cup {Wild},
             c \in SubCalls}

ExtractInit ==
    /\ bsig = SigEmpty
    /\ bargs = <<>>
    /\ bkwargs = <<>>
    /\ bres = NotApplied
    /\ Imported(MatchedTable)
    /\ last = NoOp
    /\ pattern \in Patterns
    /\ subject \in Objects
    /\ context = None
    /\ Sequential

ExtractNext == Extract \/ Matches \/ MatcherOr

SpecExtract == ExtractInit /\ [][ExtractNext]_vars

\* ------------------------------------------------------------------------
\* The adapters: adapters are registered, and an application is matched
\* ------------------------------------------------------------------------

\* most adapters in A._patterns
MaxAdapters == 3

AdapterTypes == {ApplicationExtractor, CaseClassExtractor, AnyExtractor}

\* the arguments of a registration
AdapterArgs == {<<>>} \cup {<<v>> : v \in ValueSet}

AdapterObjects ==
    {IntObj(v) : v \in ValueSet}
    \cup {InstObj("Opt", SignatureCall(SigAB, <<v>>, <<>>).val) :
             v \in ValueSet}

AdapterPatterns ==
    {A(h, args, <<>>) :
        h \in {Wild, T("Opt")},
        args \in {<<V("x")>>, <<V("x"), Wild>>}}

AdapterInit ==
    /\ bsig = SigEmpty
    /\ bargs = <<>>
    /\ bkwargs = <<>>
    /\ bres = NotApplied
    /\ Imported(MatchedTable @@ HostClasses)
    /\ last = NoOp
    /\ pattern \in AdapterPatterns
    /\ subject \in AdapterObjects
    /\ context = None
    /\ Sequential

\* cls.register(*args): "A._patterns.append(cls(*args, **kwargs))"
Register(cls, args) ==
    /\ Len(_patterns) < MaxAdapters
    /\ ConstructIn("register", None, instance_keys, instance_values, heap,
                   returned, cls, args, <<>>)
    /\ _patterns' = IF last'.exc = None THEN Append(_patterns, last'.inst)
                    ELSE _patterns
    /\ UNCHANGED <<matcher, contexts, threads>>

AdapterNext ==
    \/ \E cls \in AdapterTypes, args \in AdapterArgs : Register(cls, args)
    \/ Extract
    \/ Matches

SpecAdapters == AdapterInit /\ [][AdapterNext]_vars

\* ------------------------------------------------------------------------
\* Inherited initializers: single and multiple bases
\* ------------------------------------------------------------------------

\* "def __init__(self, a, b)"
SigPair == Signature(<<"a", "b">>, None, None, <<>>, <<>>, EmptyDict)

\* the class statements of a program in which initializers are inherited
\* along one base and along two, in the order of the program:
\*   class Base(AbstractCaseClass):  def __init__(self, a)
\*   class Left(Base)
\*   class Right(Base):  def __init__(self, a, b)
\*   class Chain(Left)
\*   class Diamond(Left, Right)
\*   class Mirror(Right, Left)
InheritDeclarations ==
    <<[name |-> "Base", bases |-> <<AbstractCaseClass>>,
       init |-> InitOf(SigA, FALSE, FALSE)],
      [name |-> "Left", bases |-> <<"Base">>, init |-> NoInit],
      [name |-> "Right", bases |-> <<"Base">>,
       init |-> InitOf(SigPair, FALSE, FALSE)],
      [name |-> "Chain", bases |-> <<"Left">>, init |-> NoInit],
      [name |-> "Diamond", bases |-> <<"Left", "Right">>, init |-> NoInit],
      [name |-> "Mirror", bases |-> <<"Right", "Left">>, init |-> NoInit]>>

\* the calls of the program: no keyword arguments
InheritCalls == {c \in Calls : c.kwargs = <<>>}

InheritNext ==
    \/ \E i \in 1..Len(InheritDeclarations) :
          /\ i = Cardinality(UserClasses) + 1
          /\ DefineClass(InheritDeclarations[i].name,
                         InheritDeclarations[i].bases,
                         InheritDeclarations[i].init)
    \/ \E cls \in UserClasses, c \in InheritCalls :
          /\ Construct(cls, c.args, c.kwargs)
          /\ NumInstances(heap') <= MaxInstances

SpecInherit == Init /\ [][InheritNext]_vars

\* ------------------------------------------------------------------------
\* Failing constructions
\* ------------------------------------------------------------------------

\* most instances that the program of failing calls stores
MaxStored == 1

\* the class statements of Declarations, in the order of the program
FailureDeclarations ==
    <<[name |-> "Tree", bases |-> <<AbstractCaseClass>>,
       init |-> InitOf(SigAC, FALSE, FALSE)],
      [name |-> "Node", bases |-> <<"Tree">>, init |-> NoInit],
      [name |-> "Leaf", bases |-> <<"Tree">>,
       init |-> InitOf(SigA, TRUE, TRUE)],
      [name |-> "Foo", bases |-> <<CaseClass>>,
       init |-> InitOf(SigAB, FALSE, FALSE)]>>

FailureNext ==
    \/ \E i \in 1..Len(FailureDeclarations) :
          /\ i = Cardinality(UserClasses) + 1
          /\ DefineClass(FailureDeclarations[i].name,
                         FailureDeclarations[i].bases,
                         FailureDeclarations[i].init)
    \/ \E cls \in DOMAIN classes, c \in Calls :
          /\ Rejecting(cls) => c.args = <<>> /\ c.kwargs = <<>>
          /\ Construct(cls, c.args, c.kwargs)
          /\ NumInstances(heap') <= MaxStored

SpecFailures == Init /\ [][FailureNext]_vars

\* ------------------------------------------------------------------------
\* Constructions in threads: CaseClassMeta.__call__ takes no lock, and the
\* interpreter may switch threads between any two of its steps
\* ------------------------------------------------------------------------

\* the threads of the program
MaxThreads == 2

Threads == 1..MaxThreads

\* a thread that is in no call
Idle ==
    [pc |-> "idle", cls |-> None, args |-> <<>>, kwargs |-> <<>>,
     key |-> EmptyDict, inst |-> NoInstance, exc |-> None]

\* the program defines "class Foo(CaseClass): def __init__(self, a, b=0)"
RaceTable ==
    BuiltinClasses
    @@ ("Foo" :> Class(<<CaseClass>>,
                       <<"Foo", CaseClass, _CaseClass, object>>,
                       InitOf(SigAB, FALSE, FALSE)))

\* the calls of the threads: Foo(0) and Foo(0, 0) have the same key
RaceCalls == {<<>>, <<0>>, <<0, 0>>, <<1>>}

RaceInit ==
    /\ bsig = SigEmpty
    /\ bargs = <<>>
    /\ bkwargs = <<>>
    /\ bres = NotApplied
    /\ classes = RaceTable
    /\ instance_keys = EmptyDict
    /\ instance_values = EmptyDict
    /\ heap = EmptyDict
    /\ returned = {}
    /\ last = NoOp
    /\ NoExtraction
    /\ NotImported
    /\ threads = [t \in Threads |-> Idle]

\* what the steps of a thread leave alone
RaceFrame ==
    /\ UNCHANGED classes
    /\ UNCHANGED bvars
    /\ UNCHANGED evars
    /\ UNCHANGED <<_patterns, matcher, contexts>>

\* the call of thread t ends: it raises exc, or returns inst
Finish(t, exc, arg, inst, found) ==
    /\ threads' = [threads EXCEPT ![t].pc = "done", ![t].exc = exc,
                                  ![t].inst = inst]
    /\ last' = [Outcome("construct", threads[t].cls, exc, arg, inst, found,
                        <<>>, <<>>, threads[t].args, threads[t].kwargs)
                    EXCEPT !.src = t]

\* thread t calls cls(*args): the two rejections, and "make sure we have
\* the dictionary"
Enter(t, cls, args) ==
    /\ threads[t].pc \in {"idle", "done"}
    /\ IsCaseClass(classes, cls)
    /\ IF IsAbstract(classes, cls)
       THEN /\ threads' = [threads EXCEPT ![t] =
                              [Idle EXCEPT !.pc = "done", !.cls = cls,
                                  !.args = args,
                                  !.exc =
                                  "NotInstantiableAbstractCaseClassException"]]
            /\ UNCHANGED <<instance_keys, instance_values>>
       ELSE IF IsBaseMarker(classes, cls)
       THEN /\ threads' = [threads EXCEPT ![t] =
                              [Idle EXCEPT !.pc = "done", !.cls = cls,
                                  !.args = args,
                                  !.exc = "NotInstantiableClassException"]]
            /\ UNCHANGED <<instance_keys, instance_values>>
       ELSE /\ threads' = [threads EXCEPT ![t] =
                              [Idle EXCEPT !.pc = "bind", !.cls = cls,
                                           !.args = args]]
            /\ instance_keys' = WithEntry(instance_keys, cls, <<>>)
            /\ instance_values' = WithEntry(instance_values, cls, EmptyDict)
    /\ UNCHANGED <<heap, returned, last>>
    /\ RaceFrame

\* "key = clsutils.get_class_parameters(cls, *args, **kwargs)"
Bind(t) ==
    /\ threads[t].pc = "bind"
    /\ \E key \in {get_class_parameters(classes, threads[t].cls,
                                         threads[t].args,
                                         threads[t].kwargs)} :
           IF key.exc # None
           THEN Finish(t, key.exc, key.arg, NoInstance, FALSE)
           ELSE /\ threads' = [threads EXCEPT ![t].pc = "scan",
                                              ![t].key = key.val]
                /\ UNCHANGED last
    /\ UNCHANGED <<instance_keys, instance_values, heap, returned>>
    /\ RaceFrame

\* "try: return cval[ckey.index(key)] except ValueError: pass"
Scan(t) ==
    /\ threads[t].pc = "scan"
    /\ LET cls == threads[t].cls
           idx == KeyIndex(instance_keys[cls], threads[t].key)
       IN  IF idx # 0
           THEN /\ Finish(t, None, None, instance_values[cls][idx], TRUE)
                /\ returned' = returned \cup
                       {<<cls, threads[t].key, instance_values[cls][idx]>>}
           ELSE /\ threads' = [threads EXCEPT ![t].pc = "new"]
                /\ UNCHANGED <<last, returned>>
    /\ UNCHANGED <<instance_keys, instance_values, heap>>
    /\ RaceFrame

\* "instance = super(CaseClassMeta, cls).__call__(*args, **kwargs)"
New(t) ==
    /\ threads[t].pc = "new"
    /\ NumInstances(heap) < MaxInstances
    /\ LET cls == threads[t].cls
           applied == SignatureCall(get_init_signature(classes, cls),
                                    threads[t].args, threads[t].kwargs)
           init_cls == ResolvedInit(classes, classes[cls].mro, 1)
           init_ok == SignatureCall(classes[init_cls].init.sig,
                                    threads[t].args,
                                    threads[t].kwargs).exc = None
           objs == IF cls \in DOMAIN heap THEN heap[cls] ELSE <<>>
       IN  IF ~init_ok
           THEN /\ Finish(t, "TypeError", None, NoInstance, FALSE)
                /\ UNCHANGED heap
           ELSE /\ threads' = [threads EXCEPT ![t].pc = "append",
                                   ![t].inst = <<cls, Len(objs) + 1>>]
                /\ heap' = [c \in DOMAIN heap \cup {cls} |->
                               IF c = cls THEN Append(objs, applied.val)
                               ELSE heap[c]]
                /\ UNCHANGED last
    /\ UNCHANGED <<instance_keys, instance_values, returned>>
    /\ RaceFrame

\* "idx = len(ckey); ckey.append(key); cval[idx] = instance;
\* return instance"
Store(t) ==
    /\ threads[t].pc = "append"
    /\ LET cls == threads[t].cls
           ckey == instance_keys[cls]
       IN  /\ instance_keys' =
                  [instance_keys EXCEPT ![cls] = Append(ckey, threads[t].key)]
           /\ instance_values' =
                  [instance_values EXCEPT ![cls] =
                      @ @@ ((Len(ckey) + 1) :> threads[t].inst)]
           /\ returned' = returned \cup
                  {<<cls, threads[t].key, threads[t].inst>>}
    /\ Finish(t, None, None, threads[t].inst, FALSE)
    /\ UNCHANGED heap
    /\ RaceFrame

RaceNext ==
    \/ \E t \in Threads, cls \in {"Foo", CaseClass, AbstractCaseClass},
          args \in RaceCalls :
          /\ cls # "Foo" => args = <<>>
          /\ Enter(t, cls, args)
    \/ \E t \in Threads : Bind(t)
    \/ \E t \in Threads : Scan(t)
    \/ \E t \in Threads : New(t)
    \/ \E t \in Threads : Store(t)

SpecRace == RaceInit /\ [][RaceNext]_vars

\* ------------------------------------------------------------------------
\* The matcher: PatternMatcher(o), m | extractor, m.context, m[item]
\* ------------------------------------------------------------------------

\* self.__context: None, or the ExtractedContext of the variables vars
NoContext == [set |-> FALSE, vars |-> EmptyDict]
ExtractedContext(bound) == [set |-> TRUE, vars |-> bound]

\* the objects that are matched, and the extractors that are tried
MatcherObjects == {IntObj(v) : v \in ValueSet}
MatcherPatterns == {V("x"), Underscore, IntObj(1), And(<<V("x"), L(IntObj(1))>>)}

MatcherInit ==
    /\ bsig = SigEmpty
    /\ bargs = <<>>
    /\ bkwargs = <<>>
    /\ bres = NotApplied
    /\ Imported(BuiltinClasses)
    /\ last = NoOp
    /\ NoExtraction
    /\ Sequential

\* m = PatternMatcher(o): a construction like any other; __init__, which
\* sets __context to None, runs on an instance that is created and not on
\* one that is found
NewMatcher(o) ==
    /\ ConstructIn("matcher", None, instance_keys, instance_values, heap,
                   returned, PatternMatcher, <<o>>, <<>>)
    /\ matcher' = [NoMatcher EXCEPT !.inst = last'.inst]
    /\ contexts' = IF last'.found THEN contexts
                   ELSE [m \in DOMAIN contexts \cup {last'.inst} |->
                            IF m = last'.inst THEN NoContext
                            ELSE contexts[m]]
    /\ UNCHANGED <<_patterns, threads>>

\* self.__o of the matcher held
MatcherObject == Held(heap, matcher.inst).values["o"]

\* what the steps on the matcher leave alone
MatcherFrame ==
    /\ UNCHANGED <<classes, instance_keys, instance_values, heap, returned>>
    /\ UNCHANGED bvars
    /\ UNCHANGED evars
    /\ UNCHANGED <<_patterns, threads>>

\* m | extractor
Attempt(extractor) ==
    /\ matcher.inst # NoInstance
    /\ \E ex \in {extract(classes, lift(extractor), MatcherObject)} :
           /\ last' = Extracted("or", Caught(ex))
           /\ contexts' =
                  [contexts EXCEPT ![matcher.inst] =
                      IF ex.exc = None THEN ExtractedContext(ex.val)
                      ELSE IF ex.exc = "ExtractorDoesNotMatch"
                      THEN NoContext
                      ELSE @]
           /\ matcher' = [matcher EXCEPT !.attempted = TRUE,
                                         !.ok = (ex.exc = None),
                                         !.vars = IF ex.exc = None
                                                  THEN ex.val
                                                  ELSE EmptyDict]
    /\ MatcherFrame

\* PatternMatcher.context of the matcher m
ContextOf(m) ==
    IF ~contexts[m].set THEN DoesNotMatch ELSE Return(contexts[m].vars)

\* m.context
ReadContext ==
    /\ matcher.inst # NoInstance
    /\ last' = Extracted("context", ContextOf(matcher.inst))
    /\ UNCHANGED <<matcher, contexts>>
    /\ MatcherFrame

\* m[item]: "self.context[item]"
ReadItem(item) ==
    /\ matcher.inst # NoInstance
    /\ \E c \in {ContextOf(matcher.inst)} :
           last' = Extracted("item",
                       IF c.exc # None THEN c
                       ELSE IF item \notin DOMAIN c.val
                       THEN Raise("KeyError", item)
                       ELSE Return(c.val[item]))
    /\ UNCHANGED <<matcher, contexts>>
    /\ MatcherFrame

MatcherNext ==
    \/ \E o \in MatcherObjects : NewMatcher(o)
    \/ \E extractor \in MatcherPatterns : Attempt(extractor)
    \/ ReadContext
    \/ \E item \in {"x", "y"} : ReadItem(item)

SpecMatcher == MatcherInit /\ [][MatcherNext]_vars

\* ------------------------------------------------------------------------
\* The combinators: one extractor is built step by step
\* ------------------------------------------------------------------------

\* most extractors that a pattern is made of
MaxNodes == 5

RECURSIVE Nodes(_)
RECURSIVE NodesOf(_, _)
Nodes(self) ==
    IF self.p = "And" THEN 1 + NodesOf(self.patterns, 1) ELSE 1

NodesOf(patterns, i) ==
    IF i > Len(patterns) THEN 0
    ELSE Nodes(patterns[i]) + NodesOf(patterns, i + 1)

\* what the combinators are given: extractors, and what is lifted
Atoms == {Wild, V("x"), L(IntObj(1))}
Operands == Atoms \cup {Underscore, TypeOf("int"), IntObj(0)}

CombineInit ==
    /\ bsig = SigEmpty
    /\ bargs = <<>>
    /\ bkwargs = <<>>
    /\ bres = NotApplied
    /\ Imported(BuiltinClasses)
    /\ last = NoOp
    /\ pattern \in Atoms
    /\ subject = None
    /\ context = None
    /\ Sequential

Combined(op, made, other) ==
    /\ Nodes(made) <= MaxNodes
    /\ pattern' = made
    /\ last' = [Outcome(op, None, None, None, NoInstance, FALSE, <<>>,
                        <<>>, <<>>, <<>>) EXCEPT !.src = other]
    /\ UNCHANGED <<subject, context>>
    /\ UNCHANGED <<classes, instance_keys, instance_values, heap, returned>>
    /\ UNCHANGED bvars
    /\ UNCHANGED xvars

\* pattern = And(pattern, o), pattern = And(o, pattern)
CombineAnd(o) ==
    \/ Combined("And", And(<<pattern, o>>), o)
    \/ Combined("And", And(<<o, pattern>>), o)

\* pattern = pattern & o, pattern = o & pattern for an extractor o
CombineAmp(o) ==
    \/ Combined("&", Amp(pattern, o), o)
    \/ "p" \in DOMAIN o /\ Combined("&", Amp(o, pattern), o)

\* pattern = pattern >> name
CombineRshift(name) == Combined(">>", Rshift(pattern, name), name)

CombineNext ==
    \/ \E o \in Operands : CombineAnd(o)
    \/ \E o \in Operands : CombineAmp(o)
    \/ \E name \in {"x", "y"} : CombineRshift(name)

SpecCombine == CombineInit /\ [][CombineNext]_vars

\* ------------------------------------------------------------------------
\* The extractors on a tree
\* ------------------------------------------------------------------------

\* most children of a node, and most sub-patterns of an application
MaxChildren == 2
MaxTreeSub == 2

\* the record types of the repository's tests and examples:
\*   class Tree(AbstractCaseClass):  def __init__(self, value, *children)
\*   class InternalNode(Tree):  pass
\*   class LeafNode(Tree):  def __init__(self, value)
SigTree == Signature(<<"value">>, "children", None, <<>>, <<>>, EmptyDict)
SigLeaf == Signature(<<"value">>, None, None, <<>>, <<>>, EmptyDict)

TreeMro == <<"Tree", AbstractCaseClass, CaseClass, _CaseClass, object>>

TreeTable ==
    ModuleClasses
    @@ ("Tree" :> Class(<<AbstractCaseClass>>, TreeMro,
                        InitOf(SigTree, FALSE, FALSE)))
    @@ ("InternalNode" :> Class(<<"Tree">>, <<"InternalNode">> \o TreeMro,
                                NoInit))
    @@ ("LeafNode" :> Class(<<"Tree">>, <<"LeafNode">> \o TreeMro,
                            InitOf(SigLeaf, TRUE, FALSE)))

TreeValues == {1, 2}

\* LeafNode(v) and InternalNode(v, *children), by what CaseClass.__new__
\* binds
LeafNode(v) ==
    InstObj("LeafNode",
            SignatureCall(get_init_signature(TreeTable, "LeafNode"), <<v>>,
                          <<>>).val)

InternalNode(v, children) ==
    InstObj("InternalNode",
            SignatureCall(get_init_signature(TreeTable, "InternalNode"),
                          <<v>> \o children, <<>>).val)

Leaves == {LeafNode(v) : v \in TreeValues}

Trees ==
    Leaves
    \cup {InternalNode(v, ch) :
             v \in TreeValues, ch \in SeqsUpTo(Leaves, MaxChildren)}

\* what an application is given for a sub-pattern: a variable, the class _
\* and a literal
TreeOperands == {V("v"), Underscore} \cup {IntObj(v) : v \in TreeValues}

TreePatterns ==
    {A(T(cls), args, <<>>) :
        cls \in {"Tree", "InternalNode", "LeafNode"},
        args \in SeqsUpTo(TreeOperands, MaxTreeSub)}

TreeInit ==
    /\ bsig = SigEmpty
    /\ bargs = <<>>
    /\ bkwargs = <<>>
    /\ bres = NotApplied
    /\ Imported(TreeTable)
    /\ last = NoOp
    /\ pattern \in TreePatterns
    /\ subject \in Trees
    /\ context = None
    /\ Sequential

TreeNext == Extract \/ Matches

SpecTree == TreeInit /\ [][TreeNext]_vars

\* ------------------------------------------------------------------------
\* Properties of AppliedSignature.__init__
\* ------------------------------------------------------------------------

\* what a call supplies, read off the call itself
ParamNames(sig) ==
    {sig.args[i] : i \in 1..Len(sig.args)}
    \cup {sig.kwonlyargs[i] : i \in 1..Len(sig.kwonlyargs)}
    \cup ({sig.vararg, sig.varkw} \ {None})

KwKeys(kwargs) == {kwargs[i].k : i \in 1..Len(kwargs)}

\* the i-th named argument is a Required one
IsRequired(sig, i) == i <= Len(sig.args) - Len(sig.defaults)

\* the Required arguments that get neither a positional nor a keyword value
Unsupplied(sig, args, kwargs) ==
    {i \in 1..Len(sig.args) :
        IsRequired(sig, i) /\ i > Len(args) /\ ~KwHas(kwargs, sig.args[i])}

\* the value the i-th named argument is expected to get
ExpectedArg(sig, args, kwargs, i) ==
    IF i <= Len(args) THEN args[i]
    ELSE IF KwHas(kwargs, sig.args[i]) THEN KwGet(kwargs, sig.args[i])
    ELSE sig.defaults[i - (Len(sig.args) - Len(sig.defaults))]

\* the keywords no named or keyword-only argument consumes
LeftoverKw(sig, args, kwargs) ==
    {k \in KwKeys(kwargs) :
        /\ ~\E i \in 1..Len(sig.args) : i > Len(args) /\ sig.args[i] = k
        /\ ~\E i \in 1..Len(sig.kwonlyargs) : sig.kwonlyargs[i] = k}

\* the leftover keywords that name a parameter other than the collector
DupKw(sig, args, kwargs) ==
    LeftoverKw(sig, args, kwargs) \cap (ParamNames(sig) \ {sig.varkw})

LeftoverPos(sig, args) == sig.vararg = None /\ Len(args) > Len(sig.args)

\* the loop over the parameters runs to its end
AllProcessed(sig, args, kwargs) ==
    /\ Unsupplied(sig, args, kwargs) = {}
    /\ \A i \in 1..Len(sig.kwonlyargs) :
          sig.kwonlyargs[i] \in DOMAIN sig.kwonlydefaults

Applied == bres.exc # "NotApplied"

BoundOk == bres.exc = None

\* the parts of binding completeness that do not concern the collector
BindingCompleteCore ==
    LET v == bres.val.values
    IN  /\ DOMAIN v = ParamNames(bsig)
        /\ \A i \in 1..Len(bsig.args) :
              v[bsig.args[i]] = ExpectedArg(bsig, bargs, bkwargs, i)
        /\ bsig.vararg # None =>
              v[bsig.vararg] = SubSeq(bargs, Len(bsig.args) + 1, Len(bargs))
        /\ \A i \in 1..Len(bsig.kwonlyargs) :
              v[bsig.kwonlyargs[i]] =
                 IF KwHas(bkwargs, bsig.kwonlyargs[i])
                 THEN KwGet(bkwargs, bsig.kwonlyargs[i])
                 ELSE bsig.kwonlydefaults[bsig.kwonlyargs[i]]

\* C8 as stated: on success the bound names are exactly the parameter names,
\* named arguments take positional, then keyword, then default, VarPositional
\* is the tuple of the unconsumed positionals and VarKeyword is the mapping of
\* all keywords that name no parameter.
C8_AsClaimed ==
    BoundOk =>
       /\ BindingCompleteCore
       /\ bsig.varkw # None =>
             bres.val.values[bsig.varkw] =
                [k \in KwKeys(bkwargs) \ ParamNames(bsig)
                    |-> KwGet(bkwargs, k)]

\* C8 (amended): as above, but VarKeyword is the mapping of all keywords that
\* name no OTHER parameter: a keyword spelled like the collector itself is
\* collected.
C8_BindingComplete ==
    BoundOk =>
       /\ BindingCompleteCore
       /\ bsig.varkw # None =>
             bres.val.values[bsig.varkw] =
                [k \in KwKeys(bkwargs) \ (ParamNames(bsig) \ {bsig.varkw})
                    |-> KwGet(bkwargs, k)]

\* a successful call that fills the VarPositional tuple and collects two
\* keywords, one of them spelled like the collector
C8_Witness ==
    /\ BoundOk
    /\ bsig = SigABCD
    /\ Len(bargs) = 3
    /\ KwKeys(bkwargs) = {"d", "e"}

\* C9: MissingArgument(name) is raised if and only if some Required parameter
\* gets neither a positional nor a keyword value, name is the first such
\* parameter, and a Defaulted parameter never causes it.
C9_MissingArgument ==
    Applied =>
       LET miss == Unsupplied(bsig, bargs, bkwargs)
       IN  /\ (bres.exc = "MissingArgument") <=> (miss # {})
           /\ miss # {} =>
                 bres.arg = bsig.args[CHOOSE i \in miss :
                                         \A j \in miss : i <= j]

\* MissingArgument for the Required parameter of a signature that also has a
\* Defaulted one, which the call passes by keyword
C9_Witness ==
    /\ bres.exc = "MissingArgument"
    /\ bres.arg = "a"
    /\ bsig = SigAB
    /\ KwHas(bkwargs, "b")

\* C10 as stated: once all parameters are processed, leftover positionals
\* raise TooManyArguments; otherwise a leftover keyword naming a bound
\* parameter raises DoubleArgumentValue for that name; otherwise leftover
\* keywords raise TooManyKeyWordArguments.
C10_AsClaimed ==
    (Applied /\ AllProcessed(bsig, bargs, bkwargs)) =>
       IF LeftoverPos(bsig, bargs)
       THEN bres.exc = "TooManyArguments"
       ELSE IF DupKw(bsig, bargs, bkwargs) # {}
       THEN /\ bres.exc = "DoubleArgumentValue"
            /\ bres.arg \in DupKw(bsig, bargs, bkwargs)
       ELSE IF bsig.varkw = None /\ LeftoverKw(bsig, bargs, bkwargs) # {}
       THEN bres.exc = "TooManyKeyWordArguments"
       ELSE BoundOk

\* C10 (amended): with a VarKeyword collector, a keyword naming a bound
\* parameter raises DoubleArgumentValue at the collector, also when
\* positionals are left over; in every other case the order is as claimed.
C10_Surplus ==
    (Applied /\ AllProcessed(bsig, bargs, bkwargs)) =>
       IF bsig.varkw # None /\ DupKw(bsig, bargs, bkwargs) # {}
       THEN /\ bres.exc = "DoubleArgumentValue"
            /\ bres.arg \in DupKw(bsig, bargs, bkwargs)
       ELSE IF LeftoverPos(bsig, bargs)
       THEN bres.exc = "TooManyArguments"
       ELSE IF DupKw(bsig, bargs, bkwargs) # {}
       THEN /\ bres.exc = "DoubleArgumentValue"
            /\ bres.arg \in DupKw(bsig, bargs, bkwargs)
       ELSE IF bsig.varkw = None /\ LeftoverKw(bsig, bargs, bkwargs) # {}
       THEN bres.exc = "TooManyKeyWordArguments"
       ELSE BoundOk

\* a call with a leftover positional and a keyword naming a bound parameter
\* on a signature with a VarKeyword collector and no VarPositional
C10_Witness ==
    /\ bres.exc = "DoubleArgumentValue"
    /\ bsig = SigAD
    /\ Len(bargs) > 1
    /\ KwHas(bkwargs, "a")


\* ------------------------------------------------------------------------
\* Properties of construction: interning
\* ------------------------------------------------------------------------

\* the last operation is a construction that returned an instance
Constructed == last.op = "construct" /\ last.exc = None

\* the AppliedSignature an instance holds
AppliedOf(x) == heap[x[1]][x[2]]

\* C1: within a class, all constructions with equal canonical parameters
\* returned one and the same instance, the one registered first under these
\* parameters, and no class holds two instances with equal AppliedSignatures
C1_Interning ==
    /\ \A r1, r2 \in returned :
          r1[1] = r2[1] /\ r1[2] = r2[2] => r1[3] = r2[3]
    /\ \A r \in returned :
          /\ r[3] \in Instances
          /\ r[3][1] = r[1]
          /\ arguments(AppliedOf(r[3])) = r[2]
          /\ \E i \in DOMAIN instance_values[r[1]] :
                /\ i = KeyIndex(instance_keys[r[1]], r[2])
                /\ instance_values[r[1]][i] = r[3]
    /\ \A c \in DOMAIN heap :
          \A i, j \in 1..Len(heap[c]) :
              AppliedEq(heap[c][i], heap[c][j]) => i = j
    /\ Constructed => <<last.cls,
                        arguments(SignatureCall(
                            get_init_signature(classes, last.cls),
                            last.args, last.kwargs).val),
                        last.inst>> \in returned

\* a construction found its parameters registered and returned the instance
\* of the first of two registered instances again
C1_Witness ==
    /\ Constructed
    /\ last.found
    /\ Len(instance_keys[last.cls]) = 2
    /\ last.inst = <<last.cls, 1>>
    /\ last.inst \in Instances

\* ------------------------------------------------------------------------
\* Properties of construction: canonical binding
\* ------------------------------------------------------------------------

Call(args, kwargs) == [args |-> args, kwargs |-> kwargs]

InsertAt(s, p, e) == SubSeq(s, 1, p - 1) \o <<e>> \o SubSeq(s, p, Len(s))

RemoveAt(s, i) == SubSeq(s, 1, i - 1) \o SubSeq(s, i + 1, Len(s))

DefaultOf(sig, j) == sig.defaults[j - (Len(sig.args) - Len(sig.defaults))]

\* the calls that differ from (args, kwargs) in the last positional argument
\* being passed by keyword, at any place among the keywords, or in a keyword
\* being passed as the next positional argument
ByKeyword(sig, args, kwargs) ==
    LET n == Len(args)
    IN  {Call(SubSeq(args, 1, n - 1),
              InsertAt(kwargs, p, [k |-> sig.args[n], v |-> args[n]])) :
            p \in {q \in 1..(Len(kwargs) + 1) : n >= 1 /\ n <= Len(sig.args)}}
        \cup
        {Call(Append(args, kwargs[i].v), RemoveAt(kwargs, i)) :
            i \in {q \in 1..Len(kwargs) :
                      n < Len(sig.args) /\ kwargs[q].k = sig.args[n + 1]}}

\* the calls that differ from (args, kwargs) in a declared default being
\* passed explicitly, by keyword or as the next positional argument, or in
\* an explicit value equal to the declared default being left out
ExplicitDefault(sig, args, kwargs) ==
    LET n == Len(args)
        free == {j \in 1..Len(sig.args) :
                    /\ ~IsRequired(sig, j)
                    /\ j > n
                    /\ sig.args[j] \notin KwKeys(kwargs)}
    IN  {Call(args, InsertAt(kwargs, p,
                             [k |-> sig.args[j], v |-> DefaultOf(sig, j)])) :
            j \in free, p \in 1..(Len(kwargs) + 1)}
        \cup
        {Call(Append(args, DefaultOf(sig, j)), kwargs) :
            j \in {q \in free : q = n + 1}}
        \cup
        {Call(args, RemoveAt(kwargs, i)) :
            i \in {q \in 1..Len(kwargs) :
                      \E j \in 1..Len(sig.args) :
                          /\ ~IsRequired(sig, j)
                          /\ sig.args[j] = kwargs[q].k
                          /\ kwargs[q].v = DefaultOf(sig, j)}}
        \cup
        {Call(SubSeq(args, 1, n - 1), kwargs) :
            j \in {q \in 1..Len(sig.args) :
                      /\ q = n
                      /\ ~IsRequired(sig, q)
                      /\ args[q] = DefaultOf(sig, q)}}

\* the calls that differ from (args, kwargs) in the order of two keywords
Reordered(args, kwargs) ==
    {Call(args, [i \in 1..Len(kwargs) |->
                    IF i = p THEN kwargs[p + 1]
                    ELSE IF i = p + 1 THEN kwargs[p] ELSE kwargs[i]]) :
        p \in 1..(Len(kwargs) - 1)}

Variants(sig, args, kwargs) ==
    ByKeyword(sig, args, kwargs)
    \cup ExplicitDefault(sig, args, kwargs)
    \cup Reordered(args, kwargs)

\* the calls two such differences away
Variants2(sig, args, kwargs) ==
    Variants(sig, args, kwargs)
    \cup UNION {Variants(sig, v.args, v.kwargs) :
                   v \in Variants(sig, args, kwargs)}

\* C2: after a class was constructed with a call, every call that differs
\* from it only in passing named parameters by keyword instead of by
\* position (in any keyword order) or in passing a declared default
\* explicitly binds to an equal AppliedSignature and is answered with the
\* same interned instance
C2_CanonicalBinding ==
    Constructed =>
        LET cls == last.cls
            sig == get_init_signature(classes, cls)
            mine == SignatureCall(sig, last.args, last.kwargs)
        IN  \A v \in Variants2(sig, last.args, last.kwargs) :
                LET theirs == SignatureCall(sig, v.args, v.kwargs)
                    key == get_class_parameters(classes, cls, v.args,
                                                v.kwargs)
                    idx == KeyIndex(instance_keys[cls], key.val)
                IN  /\ theirs.exc = None
                    /\ AppliedEq(theirs.val, mine.val)
                    /\ key.exc = None
                    /\ idx # 0
                    /\ instance_values[cls][idx] = last.inst

\* Foo(0, 0) was answered with the instance registered before, which is also
\* the answer to Foo(0), Foo(a=0), Foo(0, b=0) and Foo(b=0, a=0)
C2_Witness ==
    /\ Constructed
    /\ last.found
    /\ last.cls = "Foo"
    /\ last.args = <<0, 0>>
    /\ last.kwargs = <<>>
    /\ {Call(<<0>>, <<>>),
        Call(<<>>, <<[k |-> "a", v |-> 0]>>),
        Call(<<0>>, <<[k |-> "b", v |-> 0]>>),
        Call(<<>>, <<[k |-> "b", v |-> 0], [k |-> "a", v |-> 0]>>)}
           \subseteq Variants2(get_init_signature(classes, "Foo"),
                               last.args, last.kwargs)

\* ------------------------------------------------------------------------
\* Properties of construction: initializers and registry entries
\* ------------------------------------------------------------------------

\* every class of the sequence occurs in it once
OnceEach(s) == \A i, j \in 1..Len(s) : s[i] = s[j] => i = j

\* the keys registered for a class, none before its first call
KeysOf(reg, cls) == IF cls \in DOMAIN reg THEN reg[cls] ELSE <<>>

\* a step is a construction that returned an instance
ConstructedStep == last'.op = "construct" /\ last'.exc = None

C4_HashDefined == last.op = "hash" => last.exc = None

Markers == {CaseClass, AbstractCaseClass, InheritableCaseClass}

\* the class statement lists the Abstract marker, the Inheritable marker
ExtendsAbstract(cls) == AbstractCaseClass \in Range(classes[cls].bases)

MarkedInheritable(cls) == InheritableCaseClass \in Range(classes[cls].bases)

\* an abstract record type: a class of the program that lists the Abstract
\* marker
AbstractType(cls) == cls \in UserClasses /\ ExtendsAbstract(cls)

\* a concrete subclass of an abstract record type
ConcreteSubclass(cls) ==
    /\ cls \in UserClasses
    /\ ~ExtendsAbstract(cls)
    /\ \E i \in 1..Len(classes[cls].bases) :
          AbstractType(classes[cls].bases[i])

NotInstantiable ==
    {"NotInstantiableAbstractCaseClassException",
     "NotInstantiableClassException"}

\* C6: calling a class that lists the Abstract marker is rejected with
\* NotInstantiableAbstractCaseClassException and calling a raw marker type
\* with NotInstantiableClassException, both before any registry or binding
\* step, so that such a class never gets a registry entry; calling a
\* concrete subclass of an abstract record type, or a class that lists the
\* Inheritable marker and not the Abstract one, returns an instance
C6_Instantiability ==
    /\ \A c \in DOMAIN instance_keys \cup DOMAIN instance_values
                   \cup DOMAIN heap :
          c \notin Markers /\ ~ExtendsAbstract(c)
    /\ last.op = "construct" =>
          /\ (last.cls \in UserClasses /\ ExtendsAbstract(last.cls)) =>
                /\ last.exc = "NotInstantiableAbstractCaseClassException"
                /\ last.steps = <<>>
          /\ last.cls \in Markers =>
                /\ last.exc = "NotInstantiableClassException"
                /\ last.steps = <<>>
          /\ (ConcreteSubclass(last.cls)
              \/ (last.cls \in UserClasses
                  /\ MarkedInheritable(last.cls)
                  /\ ~ExtendsAbstract(last.cls))) =>
                /\ last.exc = None
                /\ last.inst \in Instances
                /\ "bind" \in Range(last.steps)

\* a concrete subclass of an abstract record type of the program was
\* constructed, and the registry holds no entry for the abstract type
C6_Witness ==
    /\ Constructed
    /\ ~last.found
    /\ ConcreteSubclass(last.cls)
    /\ ~MarkedInheritable(last.cls)
    /\ \E c \in UserClasses :
          /\ AbstractType(c)
          /\ c \in Range(classes[last.cls].bases)
          /\ c \notin DOMAIN instance_keys

\* an instantiable record type that is not marked Inheritable
Sealed(cls) ==
    /\ cls \in UserClasses
    /\ ~ExtendsAbstract(cls)
    /\ ~MarkedInheritable(cls)

\* C7: no class of the program has among its bases an instantiable record
\* type that is not marked Inheritable, be it a direct extension of the
\* record base or a concrete subclass of an abstract record type: every
\* such class statement failed (the class statements that list a marker
\* themselves are left aside)
C7_NoCaseToCase ==
    \A c \in UserClasses :
        Range(classes[c].bases) \cap Markers = {} =>
            \A i \in 1..Len(classes[c].bases) : ~Sealed(classes[c].bases[i])

\* ------------------------------------------------------------------------
\* Re-binding
\* ------------------------------------------------------------------------

\* the last operation re-bound an AppliedSignature
Rebound == last.op = "rebind"

\* C11: re-binding a successfully bound AppliedSignature a without arguments,
\* a(), succeeds and yields an AppliedSignature equal to a, whichever kinds
\* of parameters its signature has and also when a is itself the outcome of
\* a re-binding with overrides.
C11_RebindIdentity ==
    (Rebound /\ last.args = <<>> /\ last.kwargs = <<>>)
        => (last.exc = None /\ AppliedEq(last.val, last.src))

\* a() where a = b(k=...) has variable arguments and extra keywords bound
C11_Witness ==
    /\ Rebound /\ last.args = <<>> /\ last.kwargs = <<>>
    /\ last.exc = None
    /\ last.src # bres.val
    /\ last.src.sig = SigACKD
    /\ last.src.values["c"] # <<>>
    /\ DOMAIN last.src.values["d"] # {}

\* the last operation re-bound an AppliedSignature with success
ReboundOk == Rebound /\ last.exc = None

\* the i-th named argument gets no new value from the re-binding
NotOverridden(sig, args, kwargs, i) ==
    i > Len(args) /\ ~KwHas(kwargs, sig.args[i])

\* C12: after a successful re-binding with overrides, every Required or
\* Defaulted parameter that gets neither a new positional nor a new keyword
\* value holds its previously bound value, and VarPositional holds its
\* previous tuple when no new positional is left for it and the tuple of the
\* new leftover positionals otherwise.
C12_RebindFallback ==
    ReboundOk =>
        LET sig == last.src.sig
            old == last.src.values
            new == last.val.values
        IN  /\ \A i \in 1..Len(sig.args) :
                  NotOverridden(sig, last.args, last.kwargs, i)
                      => new[sig.args[i]] = old[sig.args[i]]
            /\ sig.vararg # None =>
                  new[sig.vararg] =
                      IF Len(last.args) <= Len(sig.args) THEN old[sig.vararg]
                      ELSE SubSeq(last.args, Len(sig.args) + 1,
                                  Len(last.args))

\* (a, b=0, *c, **d) bound with b = 1 and c not empty, re-bound with a new
\* value for a only: b stays 1 and c stays
C12_Witness ==
    /\ ReboundOk
    /\ last.src.sig = SigABCD
    /\ last.src.values["b"] = 1
    /\ last.src.values["c"] # <<>>
    /\ last.args = <<>>
    /\ KwHas(last.kwargs, "a")
    /\ last.val.values["b"] = 1
    /\ last.val.values["c"] = last.src.values["c"]

\* the keywords of the re-binding that the VarKeyword parameter collects
Extra == LeftoverKw(last.src.sig, last.args, last.kwargs)

\* the mapping of exactly these keywords
ExtraDict == [k \in Extra |-> KwGet(last.kwargs, k)]

\* the VarKeyword mapping before and after the re-binding
OldKw == last.src.values[last.src.sig.varkw]
NewKw == last.val.values[last.src.sig.varkw]

\* the last operation re-bound, with success, an AppliedSignature that has a
\* VarKeyword parameter
ReboundKw == ReboundOk /\ last.src.sig.varkw # None

\* C13, as claimed: the VarKeyword slot is all-or-nothing, the previous
\* mapping when no extra keyword is supplied and exactly the newly supplied
\* extra keywords otherwise.
C13_AsClaimed ==
    ReboundKw => NewKw = (IF Extra = {} THEN OldKw ELSE ExtraDict)

\* C13: re-binding never drops a key of the VarKeyword slot: without an
\* extra keyword the new mapping equals the previous one, and with extra
\* keywords its keys are the previous keys together with the new ones.
C13_VarKeywordExtended ==
    ReboundKw =>
        /\ Extra = {} => NewKw = OldKw
        /\ DOMAIN NewKw = DOMAIN OldKw \cup Extra

\* a mapping with a key is re-bound with another key: both are there
C13_Witness ==
    /\ ReboundKw
    /\ Extra # {}
    /\ DOMAIN OldKw \ Extra # {}
    /\ DOMAIN NewKw = DOMAIN OldKw \cup Extra

\* C14: re-binding with extra keywords adds them to the previous VarKeyword
\* mapping: a key that is not supplied again keeps its old value, a key that
\* is supplied again takes the new value, and new keys are added.
C14_VarKeywordMerge ==
    ReboundKw =>
        /\ \A k \in DOMAIN OldKw \ Extra :
              k \in DOMAIN NewKw /\ NewKw[k] = OldKw[k]
        /\ \A k \in Extra : k \in DOMAIN NewKw /\ NewKw[k] = ExtraDict[k]
        /\ \A k \in DOMAIN NewKw : k \in DOMAIN OldKw \/ k \in Extra

\* as a1(f=5, g=6) for a1 = s(1, 2, 3, f=4): one key is supplied again with
\* another value and one key is new
C14_Witness ==
    /\ ReboundKw
    /\ \E k \in DOMAIN OldKw \cap Extra : ExtraDict[k] # OldKw[k]
    /\ Extra \ DOMAIN OldKw # {}
    /\ \A k \in Extra : NewKw[k] = ExtraDict[k]

\* ------------------------------------------------------------------------
\* Defaults
\* ------------------------------------------------------------------------

\* the triples that iterating the signature yields for a name
TriplesOf(sig, name) ==
    {SigIter(sig)[i] : i \in {j \in 1..Len(SigIter(sig)) :
                                  SigIter(sig)[j].n = name}}

\* C17: get_default(name) returns the declared default of a Defaulted or
\* keyword-only parameter, the value that iterating the signature yields
\* for it; it raises NoDefaultValue for a Required, VarPositional or
\* VarKeyword parameter and NoSuchArgument for a name that is no parameter.
\* (A keyword-only parameter declared without a default is left aside.)
C17_GetDefault ==
    last.op = "get_default" =>
        LET ts == TriplesOf(bsig, last.src)
        IN  /\ ts = {} => last.exc = "NoSuchArgument"
            /\ \A p \in ts :
                  IF p.keyerror THEN TRUE
                  ELSE IF p.t \in {ARGUMENT_WITH_DEFAULT, KEYWORD_ONLY}
                  THEN last.exc = None /\ last.val = p.d
                  ELSE last.exc = "NoDefaultValue"

\* ------------------------------------------------------------------------
\* Copies
\* ------------------------------------------------------------------------

\* the step is a copy that returns an instance
CopiedStep == last'.op = "copy" /\ last'.exc = None

\* C15: instance.copy(*args, **kwargs) returns an instance of the same type
\* that holds the instance's AppliedSignature re-bound with the overrides;
\* it is the instance that the registry holds for the full argument list of
\* the re-bound signature, the one every direct construction with these
\* arguments returned and returns; the original instance, like every other
\* instance, holds what it held and stays registered where it was, and a
\* copy without overrides returns the original instance itself.
C15_Copy ==
    [][CopiedStep =>
        \E re \in {Rebind(Held(heap, last'.src.inst), last'.src.args,
                          last'.src.kwargs)} :
            /\ re.exc = None
            /\ (last'.src.args = <<>> /\ last'.src.kwargs = <<>>)
                   => last'.inst = last'.src.inst
            /\ \E cls \in {last'.src.inst[1]},
                  key \in {get_class_parameters(classes, last'.src.inst[1],
                               CallArgsOf(re.val).args,
                               CallArgsOf(re.val).kwargs)} :
                  /\ last'.inst[1] = cls
                  /\ AppliedEq(Held(heap', last'.inst), re.val)
                  /\ key.exc = None
                  /\ \E i \in DOMAIN instance_values'[cls] :
                        /\ i = KeyIndex(instance_keys'[cls], key.val)
                        /\ instance_values'[cls][i] = last'.inst
                  /\ \A r \in returned' :
                        (r[1] = cls /\ r[2] = key.val) => r[3] = last'.inst
            /\ \A c \in DOMAIN heap :
                  /\ c \in DOMAIN heap'
                  /\ \A i \in 1..Len(heap[c]) :
                        /\ i <= Len(heap'[c])
                        /\ heap'[c][i] = heap[c][i]
            /\ \A c \in DOMAIN instance_keys :
                  \A i \in 1..Len(instance_keys[c]) :
                      /\ i <= Len(instance_keys'[c])
                      /\ instance_keys'[c][i] = instance_keys[c][i]
                      /\ instance_values'[c][i] = instance_values[c][i]
    ]_vars

\* as Foo(1, 2, 4, key='value').copy(x=5) is Foo(5, 2, 4, key='value'): the
\* copy with another value for a is the instance that was constructed
\* directly before
C15_Witness ==
    /\ last.op = "copy" /\ last.exc = None
    /\ KwHas(last.src.kwargs, "a")
    /\ last.found
    /\ last.inst # last.src.inst
    /\ Held(heap, last.inst).values["a"]
           # Held(heap, last.src.inst).values["a"]
    /\ Held(heap, last.inst).values["c"] # <<>>

\* ------------------------------------------------------------------------
\* Representation
\* ------------------------------------------------------------------------

\* the last operation rendered an instance
Rendered == last.op = "repr"

\* how the parameters of an AppliedSignature are to be listed: the named
\* ones (the Required ones bare, the Defaulted ones with their name), the
\* VarPositional one, the keyword-only ones, the VarKeyword one
Pieces(applied) ==
    LET sig == applied.sig
        v == applied.values
    IN  [i \in 1..Len(sig.args) |->
            IF IsRequired(sig, i) THEN repr_int(v[sig.args[i]])
            ELSE sig.args[i] \o "=" \o repr_int(v[sig.args[i]])]
        \o (IF sig.vararg = None THEN <<>>
            ELSE <<"*" \o sig.vararg \o "=" \o repr_tuple(v[sig.vararg])>>)
        \o [i \in 1..Len(sig.kwonlyargs) |->
               sig.kwonlyargs[i] \o "=" \o repr_int(v[sig.kwonlyargs[i]])]
        \o (IF sig.varkw = None THEN <<>>
            ELSE <<"**" \o sig.varkw \o "=" \o repr_dict(v[sig.varkw])>>)

\* the pieces from the i-th on, each but the last followed by ", "
RECURSIVE Listing(_, _)
Listing(pieces, i) ==
    IF i > Len(pieces) THEN ""
    ELSE pieces[i] \o (IF i < Len(pieces) THEN ", " ELSE "")
         \o Listing(pieces, i + 1)

\* C16: repr of an instance is the name of its type followed by the list of
\* all its parameters in the order of the signature, in parentheses and
\* joined by ", ": a Required parameter as repr(value), a Defaulted or
\* keyword-only one as name=repr(value), VarPositional as *name=repr(tuple)
\* and VarKeyword as **name=repr(dict); a parameterless type renders as
\* TypeName().
C16_Repr ==
    Rendered =>
        /\ last.val = last.cls \o "("
                      \o Listing(Pieces(Held(heap, last.inst)), 1) \o ")"
        /\ last.cls = "Singleton" => last.val = "Singleton()"

\* as Test(1, 2, key='value') for Test(x, y=1, *args, **kwargs)
C16_Witness ==
    /\ Rendered
    /\ last.val = "Test(1, b=0, *c=(), **d={'e': 1})"

\* ------------------------------------------------------------------------
\* Introspection
\* ------------------------------------------------------------------------

\* C18: integer indexing of the canonical parameters of an instance,
\* instance.case_params[i], returns the value bound to the i-th positional
\* parameter of the signature (counted from 0) and does not fail for a
\* valid index.
C18_ByPosition ==
    (/\ last.op = "getitem"
     /\ last.src.t = "int"
     /\ last.src.v < Len(Held(heap, last.inst).sig.args))
        => /\ last.exc = None
           /\ last.val = Held(heap, last.inst).values[
                             Held(heap, last.inst).sig.args[last.src.v + 1]]

\* ------------------------------------------------------------------------
\* Extraction
\* ------------------------------------------------------------------------

\* C19: extract has exactly two outcomes, a context or
\* ExtractorDoesNotMatch; no other error (MissingArgument, AttributeError,
\* KeyError) comes out of it, whichever extractor of the core combinators is
\* applied to whichever object.
C19_TwoOutcomes ==
    last.op = "extract" => last.exc \in {None, "ExtractorDoesNotMatch"}

\* C20: pattern.matches(subject) and PatternMatcher(subject) | pattern
\* return true iff the extraction of pattern against subject yields a
\* context and false iff it reports ExtractorDoesNotMatch, which never
\* comes out of them; the matcher then holds the context, or none.
C20_BooleanEntryPoints ==
    last.op \in {"matches", "or"} =>
        \E r \in {extract(classes, pattern, subject)} :
            /\ last.exc # "ExtractorDoesNotMatch"
            /\ (last.exc = None /\ last.val = TRUE) <=> r.exc = None
            /\ (last.exc = None /\ last.val = FALSE)
                   <=> r.exc = "ExtractorDoesNotMatch"
            /\ (last.op = "or" /\ r.exc = None) => context = r.val
            /\ (last.op = "or" /\ r.exc = "ExtractorDoesNotMatch")
                   => context = None

\* the matcher of an instance says false to an application of its own type
\* whose sub-pattern does not match
C20_Witness ==
    /\ last.op = "or"
    /\ last.exc = None
    /\ last.val = FALSE
    /\ subject.k = "inst"
    /\ pattern.p = "A"
    /\ pattern.pattern = T(subject.cls)
    /\ Len(pattern.args) = 1

\* ------------------------------------------------------------------------
\* Properties of the variables of a pattern
\* ------------------------------------------------------------------------

\* the uses of the variables of a pattern on an object: the pairs
\* <<name, value>> of every V(name) of the pattern and the value it stands
\* against -- the object itself for the pattern and the members of a
\* conjunction, the value the object holds for the parameter for the
\* sub-patterns of an application
RECURSIVE VarUses(_, _)
RECURSIVE ParamUses(_, _, _, _)
VarUses(self, o) ==
    IF self.p = "V" THEN {<<self.name, o>>}
    ELSE IF self.p = "And"
    THEN UNION {VarUses(self.patterns[i], o) : i \in 1..Len(self.patterns)}
    ELSE IF self.p = "A"
    THEN VarUses(self.pattern, o)
         \cup (IF o.k # "inst" THEN {}
               ELSE ParamUses(self, o, SigIter(o.applied.sig),
                              SignatureCall(o.applied.sig, self.args,
                                            self.kwargs)))
    ELSE {}

\* the uses in the sub-patterns of the application self, which the binding
\* should assigns to the parameters params of the object o
ParamUses(self, o, params, should) ==
    IF should.exc # None THEN {}
    ELSE UNION {IF HoldsExtractor(self, params[i], i)
                THEN VarUses(should.val.values[params[i].n],
                             IntObj(o.applied.values[params[i].n]))
                ELSE {} :
                i \in 1..Len(params)}

\* two uses of one variable against different values
Conflict(uses) == \E u, w \in uses : u[1] = w[1] /\ u[2] # w[2]

\* C21: an extraction in which a variable stands against two different
\* values fails; an extraction that succeeds returns the context that binds
\* every variable of the pattern to the one value all its occurrences stand
\* against, and binds nothing else (no binding of another extraction); a
\* lone V(name) always succeeds and binds name to the object.
C21_VariableConsistency ==
    last.op = "extract" =>
        \E uses \in {VarUses(pattern, subject)} :
            /\ Conflict(uses) => last.exc # None
            /\ last.exc = None =>
                   /\ DOMAIN last.val = {u[1] : u \in uses}
                   /\ \A u \in uses : last.val[u[1]] = u[2]
            /\ pattern.p = "V" =>
                   /\ last.exc = None
                   /\ last.val = (pattern.name :> subject)

\* T(Opt)(V("x"), V("x")) is applied to an instance whose a and b differ
\* and fails with ExtractorDoesNotMatch
C21_Witness ==
    /\ last.op = "extract"
    /\ last.exc = "ExtractorDoesNotMatch"
    /\ pattern.p = "A"
    /\ pattern.pattern.p = "T"
    /\ pattern.args = <<V("x"), V("x")>>
    /\ subject.k = "inst"
    /\ subject.cls = "Opt"
    /\ pattern.pattern.tp = "Opt"
    /\ subject.applied.values["a"] # subject.applied.values["b"]

\* ------------------------------------------------------------------------
\* Properties of the predicates
\* ------------------------------------------------------------------------

\* the predicate C(func) alone, or after V("x") in a conjunction
PredicateAlone == pattern.p = "C"
PredicateAfterVariable ==
    /\ pattern.p = "And"
    /\ pattern.patterns[1] = V("x")
    /\ pattern.patterns[2].p = "C"

\* what a function yields for the bindings ctx: a lambda is applied to the
\* values its parameter names are bound to, and yields false if one of them
\* is not bound; any other function is applied to ctx itself
OfBindings(func, ctx) ==
    IF is_lambda(func)
    THEN /\ \A i \in 1..Len(func.names) : func.names[i] \in DOMAIN ctx
         /\ CallFunction(func, ctx[func.names[1]])
    ELSE CallFunction(func, ctx)

\* C22 as it is stated: C(func) succeeds iff func(object) is truthy, and
\* returns the context it was given.
C22_AsClaimed ==
    (last.op = "extract" /\ PredicateAlone) =>
        /\ last.exc = None <=> CallFunction(pattern.func, subject)
        /\ last.exc = None => last.val = EmptyDict

\* C22, amended: C(func) succeeds iff func applied to the bindings made so
\* far is truthy (for a lambda: iff its parameter names are all bound and
\* the lambda of the bound values is truthy), fails with
\* ExtractorDoesNotMatch otherwise, and returns the context it was given.
C22_PredicateOfContext ==
    last.op = "extract" =>
        /\ PredicateAlone =>
               /\ last.exc = None <=> OfBindings(pattern.func, EmptyDict)
               /\ last.exc # None => last.exc = "ExtractorDoesNotMatch"
               /\ last.exc = None => last.val = EmptyDict
        /\ PredicateAfterVariable =>
               /\ last.exc = None
                      <=> OfBindings(pattern.patterns[2].func,
                                     "x" :> subject)
               /\ last.exc # None => last.exc = "ExtractorDoesNotMatch"
               /\ last.exc = None => last.val = ("x" :> subject)

\* C(is_one) is applied to the int 1 and does not match
C22_Witness ==
    /\ last.op = "extract"
    /\ pattern = C(is_one)
    /\ subject = IntObj(1)
    /\ last.exc = "ExtractorDoesNotMatch"

\* ------------------------------------------------------------------------
\* Properties of the combinators
\* ------------------------------------------------------------------------

\* C23: no pattern of a conjunction is a conjunction itself, however the
\* conjunction was made from And(...), & and >>.
C23_Flattened ==
    pattern.p = "And" =>
        \A i \in 1..Len(pattern.patterns) : pattern.patterns[i].p # "And"

\* ------------------------------------------------------------------------
\* Properties of the applications
\* ------------------------------------------------------------------------

\* t = InternalNode(1, LeafNode(1), LeafNode(2))
TheTree == InternalNode(1, <<LeafNode(1), LeafNode(2)>>)

\* C24: for Tree(value, *children) and t, the pattern
\* T(InternalNode)(V("v"), _) matches t and binds v to 1, and the pattern
\* T(InternalNode)(2, _) does not match t.
C24_TreeExample ==
    (last.op = "extract" /\ subject = TheTree) =>
        /\ pattern = A(T("InternalNode"), <<V("v"), Underscore>>, <<>>) =>
               /\ last.exc = None
               /\ last.val = ("v" :> IntObj(1))
        /\ pattern = A(T("InternalNode"), <<IntObj(2), Underscore>>, <<>>) =>
               last.exc = "ExtractorDoesNotMatch"

\* ------------------------------------------------------------------------
\* C25: the adapter of an application
\* ------------------------------------------------------------------------

\* the positions of A._patterns whose adapter is applicable to o
ApplicableTo(o) ==
    {i \in 1..Len(_patterns) : applicable(classes, _patterns[i], o)}

\* the positions of the applicable adapters that no applicable adapter beats:
\* none has a higher priority, and none of the same priority is registered
\* later
Winners(o) ==
    {i \in ApplicableTo(o) :
        \A j \in ApplicableTo(o) :
            \/ priority(_patterns[j]) < priority(_patterns[i])
            \/ priority(_patterns[j]) = priority(_patterns[i]) /\ j <= i}

\* what the application self gives for o when the adapter ae is used, after
\* the head has given the context ctx
AppliedWith(self, ae, o, ctx) ==
    LET actual == AdapterExtract(ae, o)
        should == SignatureCall(actual.sig, self.args, self.kwargs)
    IN  IF should.exc \in AppliedSignatureExceptions THEN DoesNotMatch
        ELSE IF should.exc # None THEN should
        ELSE EachParam(classes, self, should.val, actual,
                       SigIter(actual.sig), 1, ctx)

\* the extraction used the one winner among the adapters, and failed with
\* ExtractorDoesNotMatch if no adapter is applicable
SelectedRight ==
    last.op = "extract" =>
        LET head == _extract(classes, pattern.pattern, subject, EmptyDict)
        IN  IF head.exc # None THEN last = Extracted("extract", head)
            ELSE IF ApplicableTo(subject) = {}
            THEN last.exc = "ExtractorDoesNotMatch"
            ELSE /\ Cardinality(Winners(subject)) = 1
                 /\ \A i \in Winners(subject) :
                        last = Extracted("extract",
                                   AppliedWith(pattern, _patterns[i],
                                               subject, head.val))

\* a step leaves A._patterns alone or appends one adapter to it
OnlyAppended ==
    \/ _patterns' = _patterns
    \/ \E cls \in AdapterTypes :
           /\ last'.op = "register"
           /\ last'.cls = cls
           /\ last'.exc = None
           /\ _patterns' = Append(_patterns, last'.inst)

\* C25: when an application is matched against an object, the adapter used
\* is applicable to the object, has the highest priority among the
\* applicable adapters registered, and is the one registered latest among
\* those of that priority; with no applicable adapter the match fails with
\* ExtractorDoesNotMatch; a registration only appends to the list of
\* adapters.
C25_AdapterSelection == [](SelectedRight) /\ [][OnlyAppended]_vars

\* an adapter of the host program, registered after CaseClassExtractor with
\* the same priority, gave the binding for a case class instance
C25_Witness ==
    /\ last.op = "extract"
    /\ last.exc = None
    /\ subject.k = "inst"
    /\ pattern = A(Wild, <<V("x")>>, <<>>)
    /\ \E i, j \in ApplicableTo(subject) :
           /\ i < j
           /\ j \in Winners(subject)
           /\ _patterns[i][1] = CaseClassExtractor
           /\ _patterns[j][1] = AnyExtractor
           /\ priority(_patterns[i]) = priority(_patterns[j])
    /\ last.val = ("x" :> IntObj(2))

\* ------------------------------------------------------------------------
\* C26: the registry only grows
\* ------------------------------------------------------------------------

\* the key list and the index-to-instance map of every type have the same
\* length, and no key is stored twice
RegistryShape ==
    /\ DOMAIN instance_keys = DOMAIN instance_values
    /\ \A cls \in DOMAIN instance_keys :
           /\ DOMAIN instance_values[cls] = 1..Len(instance_keys[cls])
           /\ \A i, j \in 1..Len(instance_keys[cls]) :
                  instance_keys[cls][i] = instance_keys[cls][j] => i = j

\* the keys of cls before a step, none for a type without an entry
StoredKeys(cls) ==
    IF cls \in DOMAIN instance_keys THEN instance_keys[cls] ELSE <<>>

\* a step keeps every entry at its index with its instance, and adds at most
\* one entry per call at the end of a list, with a key that was not stored
RegistryGrows ==
    /\ DOMAIN instance_keys \subseteq DOMAIN instance_keys'
    /\ \A cls \in DOMAIN instance_keys :
           \A i \in 1..Len(instance_keys[cls]) :
               /\ i <= Len(instance_keys'[cls])
               /\ instance_keys'[cls][i] = instance_keys[cls][i]
               /\ instance_values'[cls][i] = instance_values[cls][i]
    /\ \A cls \in DOMAIN instance_keys' :
           \/ Len(instance_keys'[cls]) = Len(StoredKeys(cls))
           \/ /\ Len(instance_keys'[cls]) = Len(StoredKeys(cls)) + 1
              /\ instance_keys'[cls][Len(instance_keys'[cls])]
                     \notin Range(StoredKeys(cls))

\* C26: after any sequence of construction calls, successful or failed, every
\* stored key keeps its index and its instance; nothing is removed, reordered
\* or replaced; an entry is appended at the end only for a key that is not
\* stored; the key list and the instance map have the same length and no
\* key is stored twice.
C26_AppendOnly == [](RegistryShape) /\ [][RegistryGrows]_vars

\* a call failed on a type that has two entries
C26_Witness ==
    /\ last.op = "construct"
    /\ last.exc # None
    /\ last.cls \in DOMAIN instance_keys
    /\ Len(instance_keys[last.cls]) = 2

\* ------------------------------------------------------------------------
\* C27: the signature of the initializer that runs
\* ------------------------------------------------------------------------

\* the signature of the initializer that type.__call__ runs for cls
SignatureOfRun(cls) ==
    classes[ResolvedInit(classes, classes[cls].mro, 1)].init.sig

\* C27: the Signature that canonicalizes the constructions of a class is
\* that of the initializer that constructing the class runs: its own, or the
\* one it inherits under the method resolution order, with single or
\* multiple bases.
C27_SignatureOfInitializer ==
    \A cls \in DOMAIN classes :
        IsCaseClass(classes, cls) =>
            get_init_signature(classes, cls) = SignatureOfRun(cls)

\* ------------------------------------------------------------------------
\* C28: a failed construction leaves no trace
\* ------------------------------------------------------------------------

\* the entries of a registry that hold something
Entries(reg) == [c \in {x \in DOMAIN reg : reg[x] # <<>>} |-> reg[c]]

\* what a construction gives its caller, and what it leaves behind
Observed(r) ==
    [exc |-> r.exc, arg |-> r.arg, inst |-> r.inst,
     keys |-> Entries(r.keys), vals |-> Entries(r.vals), heap |-> r.heap]

\* a construction call failed in this step
FailedCall == last'.op = "construct" /\ last'.exc # None

\* after a failed call no type has a key or an instance more, and every
\* construction gives what it would have given before the call: nothing to
\* compare if the call left the registry, the heap and the history as they
\* were
NoTrace ==
    FailedCall =>
        /\ Entries(instance_keys') = Entries(instance_keys)
        /\ Entries(instance_values') = Entries(instance_values)
        /\ heap' = heap
        /\ \/ <<instance_keys', instance_values', returned'>>
                  = <<instance_keys, instance_values, returned>>
           \/ \A cls \in RecordClasses, c \in InheritCalls :
                  Observed(MetaCall(instance_keys', instance_values', heap',
                                    returned', classes', cls, c.args,
                                    c.kwargs))
                      = Observed(MetaCall(instance_keys, instance_values,
                                          heap, returned, classes, cls,
                                          c.args, c.kwargs))

\* C28: a construction call that fails, by the rejection of an abstract
\* class or a base marker, by a binding error or by an error raised in the
\* initializer, appends no key and no instance to the registry of any type,
\* and every later construction returns what it would have returned had the
\* failed call not been made.
C28_FailedCallsLeaveNoTrace == [][NoTrace]_vars

\* the initializer raised for a type of which an instance is stored
C28_Witness ==
    /\ last.op = "construct"
    /\ last.exc = "InitError"
    /\ Len(StoredKeys(last.cls)) >= 1

\* ------------------------------------------------------------------------
\* C29: two constructions at once
\* ------------------------------------------------------------------------

\* thread t got an instance from its call
Got(t) ==
    /\ threads[t].pc = "done"
    /\ threads[t].exc = None
    /\ threads[t].inst # NoInstance

\* C29: when two constructions of one type with equal canonical arguments
\* run at the same time, interleaved at the steps of the protocol (compute
\* the key, scan the registry, create the instance, append), both callers
\* get the same reference and the registry holds the key once.
C29_NoDuplicateInstance ==
    /\ \A cls \in DOMAIN instance_keys :
           \A i, j \in 1..Len(instance_keys[cls]) :
               instance_keys[cls][i] = instance_keys[cls][j] => i = j
    /\ \A t, u \in Threads :
           (/\ Got(t)
            /\ Got(u)
            /\ threads[t].cls = threads[u].cls
            /\ threads[t].key = threads[u].key)
               => threads[t].inst = threads[u].inst

\* ------------------------------------------------------------------------
\* C30: the context of a matcher
\* ------------------------------------------------------------------------

\* C30: the context that the matcher returned from PatternMatcher(o) exposes
\* is that of the latest match attempted on it since that call, if that
\* attempt succeeded; with no attempt since the call, or after a latest
\* attempt that failed, reading the context or a binding raises
\* ExtractorDoesNotMatch, whatever matchers for equal subjects were made and
\* used before.
C30_OwnLatestAttempt ==
    /\ last.op = "context" =>
           IF matcher.attempted /\ matcher.ok
           THEN last.exc = None /\ last.val = matcher.vars
           ELSE last.exc = "ExtractorDoesNotMatch"
    /\ last.op = "item" =>
           IF matcher.attempted /\ matcher.ok
           THEN last.exc # "ExtractorDoesNotMatch"
           ELSE last.exc = "ExtractorDoesNotMatch"

====
